---------------------------- MODULE Spec2Model ----------------------------
(***************************************************************************)
(* Model of the import/export core of the calendar editor                  *)
(* (src/services/dataService.ts): flexible date parsing, CSV tokenizing,   *)
(* CSV/JSON import and export.                                             *)
(*                                                                         *)
(* Strings are sequences of one-character strings.  A JavaScript Date is   *)
(* its time value, counted in hours since 1970-01-01T00:00Z; the local     *)
(* fields (getFullYear, getMonth, getDate, format) are read through the    *)
(* time-zone offset tz of the machine the code runs on.                    *)
(***************************************************************************)
EXTENDS Integers, Sequences, FiniteSets, TLC

VARIABLES
    tz,          \* environment: local time = UTC + tz hours
    engine,      \* environment: the JavaScript engine's Date-string parser
    dateInput,   \* argument of parseFlexibleDate
    dateResult,  \* its return value
    dateFmt,     \* format(result, 'yyyy-MM-dd') as fromCSV applies it
    datePc,      \* "start" | "parsed" | "formatted"
    tokFields,   \* the fields to be written on one line
    tokDelim,    \* the delimiter
    tokLine,     \* the line: quoted fields joined by the delimiter
    tokOut,      \* parseCSVLine(tokLine, tokDelim)
    tokPc,       \* "fields" | "joined" | "done"
    appState,    \* the CalendarState handed to the export functions
    csvText,     \* ExportService.toCSV(appState)
    jsonDoc,     \* the JSON document handed to fromJSON
    jsonResult,  \* ImportService.fromJSON(jsonDoc)
    bkPc,        \* "state" | "csv" | "document" | "imported"
    csvContent,    \* argument of fromCSV
    csvLines,      \* lines: the non-blank lines of the content
    csvDelimiter,  \* delimiter
    csvIdx,        \* idx: the column of each role, -1 when there is none
    csvRowNo,      \* i + 1: the number of the row the loop is at
    csvActivities, \* activities
    csvWarnings,   \* warnings
    csvErrors,     \* errors
    csvResult,     \* the ImportResult returned
    csvPc,         \* "content" | "rows" | "returned"
    rawActivity,   \* argument of sanitizeActivity
    sanitized,     \* its return value, or the exception it raised
    sanPc,         \* "raw" | "sanitized"
    dateFns,       \* environment: the date-fns release the build resolves
    dayStyles,     \* state.dayStyles
    cellDay,       \* day: the calendar day of one cell of the canvas
    customStyle,   \* getDayStyle(day), or the exception it raised
    existingStyle, \* handleSelectDay's existingStyle, or the exception raised
    styPc,         \* "state" | "rendered" | "selected"
    calendar,      \* state: the CalendarState of the App component
    importPreview, \* importPreview of the sidebar: an ImportResult or null
    fileFormat,    \* formatType of the last handleFileSelect
    fileImporter,  \* the importer the last handleFileSelect called
    backup,        \* the file that the last JSON export downloaded
    idsDrawn,      \* identifiers that Math.random has given out
    lastOp,        \* the handler that ran last, with its arguments
    before,        \* the CalendarState in which it ran
    showImportModal, \* showImportModal of the sidebar
    sidebar,       \* environment: the sidebar module the build mounts
    opsRun         \* handlers run so far

envVars  == <<tz, engine>>
dateVars == <<dateInput, dateResult, dateFmt, datePc>>
tokVars  == <<tokFields, tokDelim, tokLine, tokOut, tokPc>>
bkVars   == <<appState, csvText, jsonDoc, jsonResult, bkPc>>
csvVars  == <<csvContent, csvLines, csvDelimiter, csvIdx, csvRowNo,
              csvActivities, csvWarnings, csvErrors, csvResult, csvPc>>
sanVars  == <<rawActivity, sanitized, sanPc>>
styVars  == <<dateFns, dayStyles, cellDay, customStyle, existingStyle, styPc>>
appVars  == <<calendar, importPreview, fileFormat, fileImporter, backup,
              idsDrawn, lastOp, before, showImportModal, sidebar, opsRun>>
vars     == <<envVars, dateVars, tokVars, bkVars, csvVars, sanVars, styVars,
              appVars>>

(***************************************************************************)
(* Bounds of the model                                                     *)
(***************************************************************************)
MaxDay   == 32      \* day numerals 00..MaxDay are tried
MaxMonth == 13      \* month numerals 00..MaxMonth are tried
MaxChars == 3       \* characters in all fields of a tokenizer line together
MaxFields == 2      \* fields on a tokenizer line
MaxActs == 2        \* activities in an exported state
MaxRows == 2        \* data lines in an imported CSV content
MaxStyles == 2      \* day styles in the state
MaxOps == 3         \* handlers run on the application state

\* Years tried: the threshold year of the plausibility test, a common year
\* and a leap year.
Years == {1000, 2023, 2024}

\* Offsets of local time from UTC, in hours (America/Santo_Domingo, UTC,
\* Europe/Madrid summer time).
TimeZones == {-4, 0, 2}

\* Date.parse of a string that is not in the ISO format is implementation
\* defined (ECMA-262 21.4.3.2).  "V8" is the parser of Chrome and Node;
\* "strict" recognises the ISO format only and rejects out-of-range fields.
Engines == {"V8", "strict"}

(***************************************************************************)
(* Characters                                                              *)
(***************************************************************************)
DigitChars == <<"0", "1", "2", "3", "4", "5", "6", "7", "8", "9">>

IsDigit(c) == \E i \in 1..10 : DigitChars[i] = c

DigitVal(c) == (CHOOSE i \in 1..10 : DigitChars[i] = c) - 1

\* White space, as String.prototype.trim and parseInt see it
IsSpace(c) == c \in {" ", "\t", "\n", "\r"}

\* The separators of the manual path's split(/[\/\-\.]/)
IsDateSep(c) == c \in {"/", "-", "."}

\* Decimal numerals, for building inputs
Pad2(n) == <<DigitChars[(n \div 10) + 1], DigitChars[(n % 10) + 1]>>

Dec4(n) == <<DigitChars[(n \div 1000) + 1], DigitChars[((n \div 100) % 10) + 1],
             DigitChars[((n \div 10) % 10) + 1], DigitChars[(n % 10) + 1]>>


(***************************************************************************)
(* JavaScript Date: calendar arithmetic of the time value                  *)
(***************************************************************************)
\* Day number (days since 1970-01-01) of a proleptic Gregorian date with
\* 1 <= m <= 12; d may lie outside the month.
DaysFromCivil(y, m, d) ==
    LET yy  == IF m <= 2 THEN y - 1 ELSE y
        era == yy \div 400
        yoe == yy - era * 400
        mp  == IF m > 2 THEN m - 3 ELSE m + 9
        doy == (153 * mp + 2) \div 5 + d - 1
        doe == yoe * 365 + yoe \div 4 - yoe \div 100 + doy
    IN  era * 146097 + doe - 719468

\* The calendar date of a day number
CivilFromDays(z) ==
    LET zz  == z + 719468
        era == zz \div 146097
        doe == zz - era * 146097
        yoe == (doe - doe \div 1460 + doe \div 36524 - doe \div 146096) \div 365
        doy == doe - (365 * yoe + yoe \div 4 - yoe \div 100)
        mp  == (5 * doy + 2) \div 153
        d   == doy - (153 * mp + 2) \div 5 + 1
        m   == IF mp < 10 THEN mp + 3 ELSE mp - 9
        y   == yoe + era * 400 + (IF m <= 2 THEN 1 ELSE 0)
    IN  [y |-> y, m |-> m, d |-> d]

\* ECMA-262 MakeDay(year, month, date) with month counted from 0: month and
\* date outside their ranges roll over into the neighbouring months and years.
MakeDay(year, month0, date) ==
    DaysFromCivil(year + month0 \div 12, (month0 % 12) + 1, 1) + date - 1

\* A Date object.  null (parseFlexibleDate's failure) and Invalid Date are
\* both written as a record that is not valid.
MkDate(t) == [valid |-> TRUE, t |-> t]

Null == [valid |-> FALSE, t |-> 0]

\* new Date(year, monthIndex, day): local midnight of the rolled-over date
NewDateLocal(year, month0, day, zone) ==
    MkDate(MakeDay(year, month0, day) * 24 - zone)

\* The time value of an ISO date-only string: midnight UTC
NewDateUTC(year, month0, day) == MkDate(MakeDay(year, month0, day) * 24)

\* getFullYear / getMonth + 1 / getDate: the local calendar date
LocalFields(dt, zone) == CivilFromDays((dt.t + zone) \div 24)

\* date-fns isAfter(a, b)
IsAfter(a, b) == a.t > b.t

\* The text yyyy-MM-dd of a calendar date (four-digit years)
IsoText(ymd) == Dec4(ymd.y) \o <<"-">> \o Pad2(ymd.m) \o <<"-">> \o Pad2(ymd.d)

\* date-fns format(d, 'yyyy-MM-dd'): the text of the local calendar date
Format(dt, zone) == IsoText(LocalFields(dt, zone))

DaysInMonth(y, m) == MakeDay(y, m, 1) - MakeDay(y, m - 1, 1)

\* A date of the calendar
ValidYMD(y, m, d) == m \in 1..12 /\ d >= 1 /\ d <= DaysInMonth(y, m)

(***************************************************************************)
(* String helpers                                                          *)
(***************************************************************************)
RECURSIVE TrimLeft(_)
TrimLeft(s) ==
    IF s # <<>> /\ IsSpace(Head(s)) THEN TrimLeft(Tail(s)) ELSE s

RECURSIVE TrimRight(_)
TrimRight(s) ==
    IF s # <<>> /\ IsSpace(s[Len(s)])
    THEN TrimRight(SubSeq(s, 1, Len(s) - 1))
    ELSE s

\* String.prototype.trim
Trim(s) == TrimRight(TrimLeft(s))

\* clean.split(/[\/\-\.]/): the pieces between separators, empty ones kept
RECURSIVE SplitFrom(_, _, _)
SplitFrom(s, cur, acc) ==
    IF s = <<>> THEN Append(acc, cur)
    ELSE IF IsDateSep(Head(s))
         THEN SplitFrom(Tail(s), <<>>, Append(acc, cur))
         ELSE SplitFrom(Tail(s), Append(cur, Head(s)), acc)

SplitDate(s) == SplitFrom(s, <<>>, <<>>)

\* parseInt's failure
NaN == -1

\* The value of the longest prefix of s made of digits, NaN when it is empty
RECURSIVE DigitsPrefix(_, _, _)
DigitsPrefix(s, val, seen) ==
    IF s # <<>> /\ IsDigit(Head(s))
    THEN DigitsPrefix(Tail(s), val * 10 + DigitVal(Head(s)), TRUE)
    ELSE IF seen THEN val ELSE NaN

\* A parseInt that demands the whole piece to be a numeral
WholeNumeral(p) ==
    IF p # <<>> /\ \A i \in 1..Len(p) : IsDigit(p[i])
    THEN DigitsPrefix(p, 0, FALSE)
    ELSE NaN

\* parseInt(p, 10): leading white space is skipped, then the longest run of
\* digits is read and whatever follows it is ignored.  (No piece starts with
\* a sign: "-" is a separator and "+" is not in the alphabet of the inputs.)
ParseInt(p) == DigitsPrefix(TrimLeft(p), 0, FALSE)

(***************************************************************************)
(* new Date(string)                                                        *)
(***************************************************************************)
\* Tokens of the engine's date scanner: maximal runs of digits (value and
\* length), maximal runs of letters, and single symbols (a blank is one).
NumTok(v, n) == [k |-> "num", v |-> v, n |-> n, c |-> ""]
WordTok      == [k |-> "word", v |-> 0, n |-> 0, c |-> ""]
SymTok(c)    == [k |-> "sym", v |-> 0, n |-> 0, c |-> c]

IsLetter(c) == c \in {"a", "b", "d", "x", "E"}

RECURSIVE Scan(_, _, _)
Scan(s, acc, run) ==
    IF s = <<>> THEN acc
    ELSE LET c    == Head(s)
             last == acc[Len(acc)]
         IN  IF IsDigit(c)
             THEN IF run = "num"
                  THEN Scan(Tail(s), [acc EXCEPT ![Len(acc)] =
                           NumTok(last.v * 10 + DigitVal(c), last.n + 1)], "num")
                  ELSE Scan(Tail(s), Append(acc, NumTok(DigitVal(c), 1)), "num")
             ELSE IF IsLetter(c)
             THEN IF run = "word"
                  THEN Scan(Tail(s), acc, "word")
                  ELSE Scan(Tail(s), Append(acc, WordTok), "word")
             ELSE Scan(Tail(s), Append(acc, SymTok(c)), "none")

Tokens(s) == Scan(s, <<>>, "none")

IsMonth(x) == x >= 1 /\ x <= 12
IsDay(x)   == x >= 1 /\ x <= 31

IsNum(tok, len) == tok.k = "num" /\ tok.n = len

IsSym(tok, c) == tok.k = "sym" /\ tok.c = c

\* The date-only forms of the ISO format: YYYY, YYYY-MM, YYYY-MM-DD
IsoShape(toks) ==
    /\ Len(toks) \in {1, 3, 5}
    /\ IsNum(toks[1], 4)
    /\ Len(toks) >= 3 => IsSym(toks[2], "-") /\ IsNum(toks[3], 2)
    /\ Len(toks) = 5 => IsSym(toks[4], "-") /\ IsNum(toks[5], 2)

IsoMonth(toks) == IF Len(toks) >= 3 THEN toks[3].v ELSE 1
IsoDay(toks)   == IF Len(toks) = 5 THEN toks[5].v ELSE 1

\* V8's legacy scanner loop over date-only input: every number is a day
\* component (at most three), one "." and then one "-" right after a number
\* are swallowed, a word is garbage (illegal once a number was read or when
\* a number follows it directly), a "-" elsewhere is illegal once a number
\* was read, and any other symbol is ignored.
LegacyFail == [ok |-> FALSE, comp |-> <<>>]

RECURSIVE LegacyDay(_, _, _)
LegacyDay(toks, i, comp) ==
    IF i > Len(toks) THEN [ok |-> TRUE, comp |-> comp]
    ELSE LET tok == toks[i] IN
         IF tok.k = "num"
         THEN IF Len(comp) = 3 THEN LegacyFail
              ELSE LET j == IF i + 1 <= Len(toks) /\ IsSym(toks[i + 1], ".")
                            THEN i + 2 ELSE i + 1
                       k == IF j <= Len(toks) /\ IsSym(toks[j], "-")
                            THEN j + 1 ELSE j
                   IN  LegacyDay(toks, k, Append(comp, tok.v))
         ELSE IF tok.k = "word"
         THEN IF comp # <<>> \/ (i + 1 <= Len(toks) /\ toks[i + 1].k = "num")
              THEN LegacyFail
              ELSE LegacyDay(toks, i + 1, comp)
         ELSE IF IsSym(tok, "-") /\ comp # <<>>
         THEN LegacyFail
         ELSE LegacyDay(toks, i + 1, comp)

\* V8's DayComposer::Write for a legacy date: missing components default to
\* 1, the order is year-month-day when the first component cannot be a day
\* and month-day-year otherwise, two-digit years are moved into 1950..2049,
\* and month and day are only checked against 1..12 and 1..31.
LegacyWrite(comp, zone) ==
    LET c     == [i \in 1..3 |-> IF i <= Len(comp) THEN comp[i] ELSE 1]
        ymd   == ~IsDay(c[1])
        year0 == IF ymd THEN c[1] ELSE c[3]
        month == IF ymd THEN c[2] ELSE c[1]
        day   == IF ymd THEN c[3] ELSE c[2]
        year  == IF year0 <= 49 THEN year0 + 2000
                 ELSE IF year0 <= 99 THEN year0 + 1900 ELSE year0
    IN  IF comp = <<>> \/ ~IsMonth(month) \/ ~IsDay(day) THEN Null
        ELSE NewDateLocal(year, month - 1, day, zone)

\* new Date(clean) on V8: an ISO date whose fields are within 1..12 and 1..31
\* is taken as UTC and a day beyond the month's end rolls over; everything
\* else goes to the legacy parser, which yields a local date.
NewDateV8(clean, zone) ==
    LET toks == Tokens(clean) IN
    IF toks = <<>> THEN Null
    ELSE IF IsoShape(toks) /\ IsMonth(IsoMonth(toks)) /\ IsDay(IsoDay(toks))
    THEN NewDateUTC(toks[1].v, IsoMonth(toks) - 1, IsoDay(toks))
    ELSE LET r == LegacyDay(toks, 1, <<>>) IN
         IF r.ok THEN LegacyWrite(r.comp, zone) ELSE Null

\* new Date(clean) on an engine that implements the ISO format alone: a
\* date of the calendar is taken as UTC, anything else is an Invalid Date.
NewDateStrict(clean) ==
    LET toks == Tokens(clean) IN
    IF toks # <<>> /\ IsoShape(toks)
       /\ ValidYMD(toks[1].v, IsoMonth(toks), IsoDay(toks))
    THEN NewDateUTC(toks[1].v, IsoMonth(toks) - 1, IsoDay(toks))
    ELSE Null

NewDateFromString(clean, zone, eng) ==
    IF eng = "V8" THEN NewDateV8(clean, zone) ELSE NewDateStrict(clean)

(***************************************************************************)
(* ImportService.parseFlexibleDate                                         *)
(***************************************************************************)
\* An argument that is undefined (a column the row does not have)
Undefined == <<"undefined">>

\* The numbers the manual path reads from the pieces
DateParts(clean) ==
    LET pieces == SplitDate(clean)
    IN  [i \in 1..Len(pieces) |-> ParseInt(pieces[i])]

\* Step 2 of parseFlexibleDate: year, month and day from exactly three
\* numbers, then the check that new Date(year, month - 1, day) gives the same
\* three fields back.
ManualParse(clean, zone) ==
    LET parts == DateParts(clean) IN
    IF Len(parts) # 3 \/ \E i \in 1..Len(parts) : parts[i] = NaN THEN Null
    ELSE IF parts[1] <= 1000 /\ parts[3] <= 1000 THEN Null
    ELSE LET ymd == IF parts[1] > 1000
                    THEN [y |-> parts[1], m |-> parts[2], d |-> parts[3]]
                    ELSE IF parts[1] > 12
                    THEN [y |-> parts[3], m |-> parts[2], d |-> parts[1]]
                    ELSE IF parts[2] > 12
                    THEN [y |-> parts[3], m |-> parts[1], d |-> parts[2]]
                    ELSE [y |-> parts[3], m |-> parts[2], d |-> parts[1]]
             dt  == NewDateLocal(ymd.y, ymd.m - 1, ymd.d, zone)
         IN  IF LocalFields(dt, zone) = ymd THEN dt ELSE Null

\* Step 1 of parseFlexibleDate: the engine's own parse is taken when its
\* local year is above 1000.
DirectAccepts(clean, zone, eng) ==
    LET dt == NewDateFromString(clean, zone, eng)
    IN  dt.valid /\ LocalFields(dt, zone).y > 1000

ParseFlexibleDate(input, zone, eng) ==
    IF input = Undefined \/ input = <<>> THEN Null
    ELSE LET clean == Trim(input) IN
         IF clean = <<>> THEN Null
         ELSE IF DirectAccepts(clean, zone, eng)
         THEN NewDateFromString(clean, zone, eng)
         ELSE ManualParse(clean, zone)

(***************************************************************************)
(* SpecDate: parseFlexibleDate applied to one input, and the format that   *)
(* fromCSV applies to its result                                           *)
(***************************************************************************)
Join3(a, b, c, sep) == a \o <<sep>> \o b \o <<sep>> \o c

DateSeps == {"/", "-", "."}

\* Year first: YYYY-MM-DD, YYYY/MM/DD, YYYY.MM.DD
YearFirstInputs ==
    {Join3(Dec4(y), Pad2(m), Pad2(d), sep) :
        y \in Years, m \in 0..MaxMonth, d \in 0..MaxDay, sep \in DateSeps}

\* Year last: A/B/YYYY with one of A, B up to MaxDay and the other up to
\* MaxMonth
YearLastInputs ==
    {Join3(Pad2(a), Pad2(b), Dec4(y), sep) :
        a \in 0..MaxDay, b \in 0..MaxMonth, y \in Years, sep \in DateSeps}
    \cup
    {Join3(Pad2(a), Pad2(b), Dec4(y), sep) :
        a \in 0..MaxMonth, b \in 0..MaxDay, y \in Years, sep \in DateSeps}

\* Inputs that are not three two-or-four-digit numerals
OddInputs ==
    { <<>>, <<" ", " ">>, Undefined,
      <<" ">> \o Join3(Dec4(2024), Pad2(3), Pad2(10), "-") \o <<" ">>,
      <<"1", "0", "x">> \o <<"/">> \o Pad2(5) \o <<"/">> \o Dec4(2024),
      Join3(Pad2(10), <<"x">>, Dec4(2024), "/"),
      Pad2(10) \o <<"/">> \o Pad2(5),
      Join3(Pad2(1), Pad2(2), Pad2(3), "/") \o <<"/">> \o Dec4(2024),
      Join3(<<"5">>, <<"6">>, Dec4(2024), "/"),
      Join3(Dec4(2024), <<"2">>, <<"3">>, "-"),
      Join3(Pad2(5), Pad2(6), Pad2(24), "/"),
      Join3(Pad2(13), <<>>, Dec4(2024), "/"),
      Dec4(2024),
      <<"x">> }

DateInputs == YearFirstInputs \cup YearLastInputs \cup OddInputs

NoFormat == <<>>

InitEnv ==
    /\ tz \in TimeZones
    /\ engine \in Engines

\* A specification leaves the variables of the operations it does not run
\* at these values.
IdleEnv == tz = 0 /\ engine = "V8"

IdleDate ==
    /\ dateInput = <<>>
    /\ dateResult = Null
    /\ dateFmt = NoFormat
    /\ datePc = "idle"

IdleTok ==
    /\ tokFields = <<>>
    /\ tokDelim = ","
    /\ tokLine = <<>>
    /\ tokOut = <<>>
    /\ tokPc = "idle"

NoDoc == [none |-> TRUE]

EmptyState ==
    [config |-> [year |-> 2026], categories |-> <<>>, activities |-> <<>>,
     dayStyles |-> <<>>, notifications |-> <<>>]

IdleBackup ==
    /\ appState = EmptyState
    /\ csvText = <<>>
    /\ jsonDoc = NoDoc
    /\ jsonResult = NoDoc
    /\ bkPc = "idle"

NoIdx == [title |-> -1, start |-> -1, end |-> -1, prog |-> -1, cat |-> -1,
          desc |-> -1]

IdleSanitize ==
    /\ rawActivity = NoDoc
    /\ sanitized = NoDoc
    /\ sanPc = "idle"

NoStyle == [undefined |-> TRUE]

IdleStyles ==
    /\ dateFns = "v2"
    /\ dayStyles = <<>>
    /\ cellDay = [y |-> 2026, m |-> 1, d |-> 1]
    /\ customStyle = NoStyle
    /\ existingStyle = NoStyle
    /\ styPc = "idle"

NoFile == [text |-> <<>>, json |-> NoDoc]

NoOp == [name |-> "none"]

IdleApp ==
    /\ calendar = EmptyState
    /\ importPreview = NoDoc
    /\ fileFormat = "none"
    /\ fileImporter = "none"
    /\ backup = NoFile
    /\ idsDrawn = 0
    /\ lastOp = NoOp
    /\ before = EmptyState
    /\ showImportModal = FALSE
    /\ sidebar = "ImportService"
    /\ opsRun = 0

IdleCSV ==
    /\ csvContent = <<>>
    /\ csvLines = <<>>
    /\ csvDelimiter = ","
    /\ csvIdx = NoIdx
    /\ csvRowNo = 0
    /\ csvActivities = <<>>
    /\ csvWarnings = <<>>
    /\ csvErrors = <<>>
    /\ csvResult = NoDoc
    /\ csvPc = "idle"

InitDate ==
    /\ InitEnv
    /\ dateInput \in DateInputs
    /\ dateResult = Null
    /\ dateFmt = NoFormat
    /\ datePc = "start"
    /\ IdleTok
    /\ IdleBackup
    /\ IdleCSV
    /\ IdleSanitize
    /\ IdleStyles
    /\ IdleApp

\* startDt = this.parseFlexibleDate(row[idx.start])
ParseDate ==
    /\ datePc = "start"
    /\ dateResult' = ParseFlexibleDate(dateInput, tz, engine)
    /\ datePc' = "parsed"
    /\ UNCHANGED <<envVars, appVars, sanVars, styVars, dateInput, dateFmt, tokVars, bkVars, csvVars>>

\* startDate: format(startDt, 'yyyy-MM-dd'), reached when the parse succeeded
FormatDate ==
    /\ datePc = "parsed"
    /\ dateResult.valid
    /\ dateFmt' = Format(dateResult, tz)
    /\ datePc' = "formatted"
    /\ UNCHANGED <<envVars, appVars, sanVars, styVars, dateInput, dateResult, tokVars, bkVars, csvVars>>

NextDate == ParseDate \/ FormatDate

SpecDate == InitDate /\ [][NextDate]_vars

(***************************************************************************)
(* Properties of parseFlexibleDate (checked under SpecDate)                *)
(***************************************************************************)
\* The numerals written in the input, NaN for a piece that is not entirely
\* a numeral
Written(input) ==
    LET pieces == IF input = Undefined THEN <<>> ELSE SplitDate(Trim(input))
    IN  [i \in 1..Len(pieces) |-> WholeNumeral(pieces[i])]

ThreeNumerals(input) ==
    /\ Len(Written(input)) = 3
    /\ \A i \in 1..3 : Written(input)[i] # NaN

YearFirst(input) == ThreeNumerals(input) /\ Written(input)[1] > 1000

YearLast(input) ==
    /\ ThreeNumerals(input)
    /\ Written(input)[1] <= 1000
    /\ Written(input)[3] > 1000

\* The date a three-part input denotes: year first is year-month-day; year
\* last takes the part above 12 as the day and is day-first otherwise.
Denoted(input) ==
    LET w == Written(input) IN
    IF w[1] > 1000 THEN [y |-> w[1], m |-> w[2], d |-> w[3]]
    ELSE IF w[1] <= 12 /\ w[2] > 12 THEN [y |-> w[3], m |-> w[1], d |-> w[2]]
    ELSE [y |-> w[3], m |-> w[2], d |-> w[1]]

DenotesValid(input) ==
    LET ymd == Denoted(input) IN ValidYMD(ymd.y, ymd.m, ymd.d)

DateParsed == datePc \in {"parsed", "formatted"}

\* C2: a three-part date whose day or month is out of range for the
\* calendar is rejected (null), never rolled over into another month.
C2_OutOfRangeRejected ==
    /\ DateParsed
    /\ YearFirst(dateInput) \/ YearLast(dateInput)
    /\ ~DenotesValid(dateInput)
    => ~dateResult.valid

\* C3: for A/B/YYYY a returned date has the part above 12 as its day when
\* exactly one of A, B is above 12, and is day-first (day A, month B) when
\* neither is, whichever path produced it.
C3_DayMonthOrder ==
    /\ DateParsed
    /\ YearLast(dateInput)
    /\ Written(dateInput)[1] <= 12 \/ Written(dateInput)[2] <= 12
    /\ dateResult.valid
    => /\ LocalFields(dateResult, tz).d = Denoted(dateInput).d
       /\ LocalFields(dateResult, tz).m = Denoted(dateInput).m

\* The unambiguous ways of writing a date: YYYY-MM-DD, or year last with the
\* day above 12
Unambiguous(input) ==
    \/ YearFirst(input) /\ Len(input) = 10 /\ input[5] = "-" /\ input[8] = "-"
    \/ YearLast(input) /\ Denoted(input).d > 12

\* C4: a valid calendar date written unambiguously parses to exactly the
\* year, month and day written, and formats (yyyy-MM-dd) to the same day.
C4_ParsesAsWritten ==
    /\ DateParsed
    /\ Unambiguous(dateInput)
    /\ DenotesValid(dateInput)
    => /\ dateResult.valid
       /\ LocalFields(dateResult, tz) = Denoted(dateInput)
       /\ datePc = "formatted" => dateFmt = IsoText(Denoted(dateInput))

\* C5: when the direct parse does not accept the input, a date is returned
\* only if the input splits into exactly three parts that are each entirely
\* an integer numeral.
C5_ManualNeedsThreeNumerals ==
    /\ DateParsed
    /\ dateInput # Undefined
    /\ ~DirectAccepts(Trim(dateInput), tz, engine)
    /\ dateResult.valid
    => ThreeNumerals(dateInput)

(***************************************************************************)
(* ImportService.parseCSVLine and the quoting of ExportService.toCSV       *)
(***************************************************************************)
Quote == "\""

\* The loop of parseCSVLine from index i on
RECURSIVE CSVScan(_, _, _, _, _, _)
CSVScan(line, delimiter, i, current, inQuotes, result) ==
    IF i > Len(line) THEN Append(result, Trim(current))
    ELSE IF line[i] = Quote
    THEN IF inQuotes /\ i + 1 <= Len(line) /\ line[i + 1] = Quote
         THEN CSVScan(line, delimiter, i + 2, Append(current, Quote),
                      inQuotes, result)
         ELSE CSVScan(line, delimiter, i + 1, current, ~inQuotes, result)
    ELSE IF line[i] = delimiter /\ ~inQuotes
    THEN CSVScan(line, delimiter, i + 1, <<>>, inQuotes,
                 Append(result, Trim(current)))
    ELSE CSVScan(line, delimiter, i + 1, Append(current, line[i]),
                 inQuotes, result)

\* A tokenizer that takes every quote as a toggle (no doubled-quote escape)
RECURSIVE CSVScanNoEscape(_, _, _, _, _, _)
CSVScanNoEscape(line, delimiter, i, current, inQuotes, result) ==
    IF i > Len(line) THEN Append(result, Trim(current))
    ELSE IF line[i] = Quote
    THEN CSVScanNoEscape(line, delimiter, i + 1, current, ~inQuotes, result)
    ELSE IF line[i] = delimiter /\ ~inQuotes
    THEN CSVScanNoEscape(line, delimiter, i + 1, <<>>, inQuotes,
                         Append(result, Trim(current)))
    ELSE CSVScanNoEscape(line, delimiter, i + 1, Append(current, line[i]),
                         inQuotes, result)

ParseCSVLineNoEscape(line, delimiter) ==
    CSVScanNoEscape(line, delimiter, 1, <<>>, FALSE, <<>>)

ParseCSVLine(line, delimiter) == CSVScan(line, delimiter, 1, <<>>, FALSE, <<>>)

\* s.replace(/"/g, '""')
RECURSIVE DoubleQuotes(_)
DoubleQuotes(s) ==
    IF s = <<>> THEN <<>>
    ELSE (IF Head(s) = Quote THEN <<Quote, Quote>> ELSE <<Head(s)>>)
         \o DoubleQuotes(Tail(s))

\* `"${s.replace(/"/g, '""')}"`
QuoteField(s) == <<Quote>> \o DoubleQuotes(s) \o <<Quote>>

\* Array.prototype.join
RECURSIVE JoinWith(_, _)
JoinWith(strs, sep) ==
    IF strs = <<>> THEN <<>>
    ELSE IF Len(strs) = 1 THEN strs[1]
    ELSE strs[1] \o <<sep>> \o JoinWith(Tail(strs), sep)

(***************************************************************************)
(* SpecTok: fields are quoted, joined and tokenized again                  *)
(***************************************************************************)
TokAlphabet == {"a", ",", ";", Quote, " "}

TokStrings == UNION {[1..n -> TokAlphabet] : n \in 0..MaxChars}

\* Every way of cutting a string into at most MaxFields consecutive fields
\* (empty fields included), and the empty sequence of fields
RECURSIVE CutsOf(_, _)
CutsOf(s, k) ==
    IF k = 1 THEN {<<s>>}
    ELSE UNION {{<<SubSeq(s, 1, i)>> \o rest :
                    rest \in CutsOf(SubSeq(s, i + 1, Len(s)), k - 1)} :
                i \in 0..Len(s)}

FieldSeqs ==
    {<<>>} \cup UNION {CutsOf(s, k) : s \in TokStrings, k \in 1..MaxFields}

InitTok ==
    /\ IdleEnv
    /\ IdleDate
    /\ IdleBackup
    /\ IdleCSV
    /\ IdleSanitize
    /\ IdleStyles
    /\ IdleApp
    /\ tokFields \in FieldSeqs
    /\ tokDelim \in {",", ";"}
    /\ tokLine = <<>>
    /\ tokOut = <<>>
    /\ tokPc = "fields"

\* Every field quoted as toCSV quotes, the fields joined by the delimiter
QuoteAndJoin ==
    /\ tokPc = "fields"
    /\ tokLine' = JoinWith([i \in 1..Len(tokFields) |-> QuoteField(tokFields[i])],
                           tokDelim)
    /\ tokPc' = "joined"
    /\ UNCHANGED <<envVars, appVars, sanVars, styVars, dateVars, bkVars, csvVars, tokFields, tokDelim, tokOut>>

\* parseCSVLine(tokLine, tokDelim)
Tokenize ==
    /\ tokPc = "joined"
    /\ tokOut' = ParseCSVLine(tokLine, tokDelim)
    /\ tokPc' = "done"
    /\ UNCHANGED <<envVars, appVars, sanVars, styVars, dateVars, bkVars, csvVars, tokFields, tokDelim, tokLine>>

NextTok == QuoteAndJoin \/ Tokenize

SpecTok == InitTok /\ [][NextTok]_vars

(***************************************************************************)
(* JavaScript values and objects                                           *)
(*                                                                         *)
(* A value is a string (a sequence of characters) or one of the markers    *)
(* below.  An object is a function from its own keys to values; a key that *)
(* is absent reads as undefined.                                           *)
(***************************************************************************)
True  == <<"true">>
False == <<"false">>
JsNull == <<"null">>
NumberZero  == <<"0 (number)">>
NumberSeven == <<"7 (number)">>

\* typeof v === 'string'
IsString(v) ==
    v \notin {Undefined, JsNull, True, False, NumberZero, NumberSeven}

\* null where a record is expected
NullRecord == [null |-> TRUE]

\* An exception of the engine, as the value of the call that raised it
TypeError == [throws |-> "TypeError"]

\* a.k
Read(obj, k) == IF k \in DOMAIN obj THEN obj[k] ELSE Undefined

\* The values that count as true in v || w and v ? x : y
Truthy(v) == v \notin {Undefined, JsNull, <<>>, False, NumberZero}

\* v || w
OrElse(v, w) == IF Truthy(v) THEN v ELSE w

\* JSON.stringify followed by JSON.parse on an object of strings and
\* booleans: the keys whose value is undefined are gone.
JsonObject(obj) ==
    [k \in {j \in DOMAIN obj : obj[j] # Undefined} |-> obj[k]]

LowerCase == <<"a", "b", "c", "d", "e", "f", "g", "h", "i", "j", "k", "l", "m",
               "n", "o", "p", "q", "r", "s", "t", "u", "v", "w", "x", "y", "z">>
UpperCase == <<"A", "B", "C", "D", "E", "F", "G", "H", "I", "J", "K", "L", "M",
               "N", "O", "P", "Q", "R", "S", "T", "U", "V", "W", "X", "Y", "Z">>

ToLowerChar(c) ==
    IF \E i \in 1..26 : UpperCase[i] = c
    THEN LowerCase[CHOOSE i \in 1..26 : UpperCase[i] = c]
    ELSE c

\* String.prototype.toLowerCase
ToLowerCase(s) == [i \in 1..Len(s) |-> ToLowerChar(s[i])]

\* String.prototype.includes
Includes(s, part) ==
    \E i \in 0..(Len(s) - Len(part)) : SubSeq(s, i + 1, i + Len(part)) = part

(***************************************************************************)
(* validateProgram, validateStatus, sanitizeActivity                       *)
(***************************************************************************)
\* A program coercion that looks for "coro" before the two longer keywords
ValidateProgramCoroFirst(val) ==
    LET v == ToLowerCase(OrElse(val, <<>>)) IN
    IF Includes(v, <<"o", "r", "q">>) THEN <<"O", "r", "q", "u", "e", "s", "t", "a">>
    ELSE IF Includes(v, <<"c", "o", "r", "o">>) THEN <<"C", "o", "r", "o">>
    ELSE IF Includes(v, <<"c", "o", "r", "o", " ", "i", "n", "f">>) THEN <<"C", "o", "r", "o", " ", "I", "n", "f", "a", "n", "t", "i", "l">>
    ELSE IF Includes(v, <<"c", "o", "r", "o", " ", "j", "u", "v">>) THEN <<"C", "o", "r", "o", " ", "J", "u", "v", "e", "n", "i", "l">>
    ELSE <<"G", "e", "n", "e", "r", "a", "l">>

\* A program coercion without toLowerCase
ValidateProgramCaseSensitive(val) ==
    LET v == OrElse(val, <<>>) IN
    IF Includes(v, <<"o", "r", "q">>) THEN <<"O", "r", "q", "u", "e", "s", "t", "a">>
    ELSE IF Includes(v, <<"c", "o", "r", "o", " ", "i", "n", "f">>) THEN <<"C", "o", "r", "o", " ", "I", "n", "f", "a", "n", "t", "i", "l">>
    ELSE IF Includes(v, <<"c", "o", "r", "o", " ", "j", "u", "v">>) THEN <<"C", "o", "r", "o", " ", "J", "u", "v", "e", "n", "i", "l">>
    ELSE IF Includes(v, <<"c", "o", "r", "o">>) THEN <<"C", "o", "r", "o">>
    ELSE <<"G", "e", "n", "e", "r", "a", "l">>

ValidateProgram(val) ==
    LET v == ToLowerCase(OrElse(val, <<>>)) IN
    IF Includes(v, <<"o", "r", "q">>) THEN <<"O", "r", "q", "u", "e", "s", "t", "a">>
    ELSE IF Includes(v, <<"c", "o", "r", "o", " ", "i", "n", "f">>) THEN <<"C", "o", "r", "o", " ", "I", "n", "f", "a", "n", "t", "i", "l">>
    ELSE IF Includes(v, <<"c", "o", "r", "o", " ", "j", "u", "v">>) THEN <<"C", "o", "r", "o", " ", "J", "u", "v", "e", "n", "i", "l">>
    ELSE IF Includes(v, <<"c", "o", "r", "o">>) THEN <<"C", "o", "r", "o">>
    ELSE <<"G", "e", "n", "e", "r", "a", "l">>

ValidateStatus(val) ==
    LET v == ToLowerCase(OrElse(val, <<>>)) IN
    IF Includes(v, <<"p", "o", "s", "t">>) THEN <<"p", "o", "s", "t", "p", "o", "n", "e", "d">>
    ELSE IF Includes(v, <<"s", "u", "s", "p">>) THEN <<"s", "u", "s", "p", "e", "n", "d", "e", "d">>
    ELSE <<"a", "c", "t", "i", "v", "e">>

ProgramTypes ==
    {<<"O", "r", "q", "u", "e", "s", "t", "a">>, <<"C", "o", "r", "o">>, <<"C", "o", "r", "o", " ", "I", "n", "f", "a", "n", "t", "i", "l">>, <<"C", "o", "r", "o", " ", "J", "u", "v", "e", "n", "i", "l">>, <<"G", "e", "n", "e", "r", "a", "l">>}

ActivityStatuses == {<<"a", "c", "t", "i", "v", "e">>, <<"p", "o", "s", "t", "p", "o", "n", "e", "d">>, <<"s", "u", "s", "p", "e", "n", "d", "e", "d">>}

\* format(new Date(), 'yyyy-MM-dd') at the time of the import
Today == IsoText([y |-> 2026, m |-> 11, d |-> 2])

\* Math.random().toString(36).substr(2, 9): the n-th identifier drawn
RandomId(n) == <<"r", DigitChars[n + 1]>>

DefaultColor == <<"#", "3", "b", "8", "2", "f", "6">>

\* The placeholder title (the source writes it with an accented i)
SinTitulo == <<"S", "i", "n", " ", "t", "i", "t", "u", "l", "o">>

\* (val || '').toLowerCase is not a function: val is neither falsy nor a
\* string
NotAString(val) == Truthy(val) /\ ~IsString(val)

\* sanitizeActivity(a, existingCategories); n numbers the identifier drawn
\* when a has none
SanitizeActivity(a, n) ==
    LET startDate == OrElse(Read(a, "startDate"), Today) IN
    IF a = NullRecord THEN TypeError                    \* a.startDate
    ELSE IF NotAString(Read(a, "program")) THEN TypeError
    ELSE IF NotAString(Read(a, "status")) THEN TypeError
    ELSE
    [id          |-> OrElse(Read(a, "id"), RandomId(n)),
     title       |-> OrElse(Read(a, "title"), SinTitulo),
     startDate   |-> startDate,
     endDate     |-> OrElse(Read(a, "endDate"), startDate),
     color       |-> OrElse(Read(a, "color"), DefaultColor),
     program     |-> ValidateProgram(Read(a, "program")),
     categoryId  |-> Read(a, "categoryId"),
     status      |-> ValidateStatus(Read(a, "status")),
     completed   |-> IF Truthy(Read(a, "completed")) THEN True ELSE False,
     description |-> OrElse(Read(a, "description"), <<>>)]

(***************************************************************************)
(* ExportService.toJSON, ImportService.fromJSON, ExportService.toCSV       *)
(***************************************************************************)
\* A toJSON whose envelope leaves the day styles out
ToJSONWithoutDayStyles(state) ==
    [version     |-> "1.5.1",
     application |-> "Sinfonia Calendar Core",
     exportDate  |-> Today,
     data        |-> [config     |-> state.config,
                      categories |-> state.categories,
                      activities |-> [i \in 1..Len(state.activities) |->
                                         JsonObject(state.activities[i])]]]

\* ExportService.toJSON(state).  The text is written as the document it
\* denotes: what JSON.parse gives back for it.
ToJSON(state) ==
    [version     |-> "1.5.1",
     application |-> "Sinfonia Calendar Core",
     exportDate  |-> Today,
     data        |-> [config     |-> state.config,
                      categories |-> state.categories,
                      activities |-> [i \in 1..Len(state.activities) |->
                                         JsonObject(state.activities[i])],
                      dayStyles  |-> state.dayStyles]]

\* A content that JSON.parse rejects
MalformedJson == [malformed |-> TRUE]

\* The content "null"
NullDoc == [null |-> TRUE]

\* The result of the catch clause of fromJSON
JsonCaught(e) ==
    [success |-> FALSE, message |-> "Error al parsear el archivo JSON.",
     errors |-> <<e>>]

\* { config: data.config, ...rest }: a key whose value is undefined reads as
\* a key that is absent
WithConfig(data, rest) ==
    IF "config" \in DOMAIN data THEN [config |-> data.config] @@ rest ELSE rest

\* A fromJSON without try and catch: what the body raises leaves the call
FromJSONUncaught(doc) ==
    IF doc = MalformedJson THEN [throws |-> "SyntaxError"]
    ELSE IF doc = NullDoc THEN TypeError
    ELSE LET data == IF "data" \in DOMAIN doc THEN doc.data ELSE doc
             raw  == IF "activities" \in DOMAIN data THEN data.activities ELSE <<>>
             activities == [i \in 1..Len(raw) |-> SanitizeActivity(raw[i], i)]
         IN  IF "activities" \notin DOMAIN data /\ "categories" \notin DOMAIN data
             THEN [success |-> FALSE,
                   message |-> "JSON sin datos de actividades o categorias validos."]
             ELSE IF \E i \in 1..Len(raw) : activities[i] = TypeError
             THEN TypeError
             ELSE [success |-> TRUE,
                   message |-> <<"JSON procesado", Len(activities)>>,
                   data    |-> WithConfig(data,
                               [categories |-> IF "categories" \in DOMAIN data
                                               THEN data.categories ELSE <<>>,
                                activities |-> activities,
                                dayStyles  |-> IF "dayStyles" \in DOMAIN data
                                               THEN data.dayStyles ELSE <<>>])]

\* A fromJSON without the test for the two keys
FromJSONNoKeyTest(doc) ==
    IF doc = MalformedJson THEN JsonCaught("SyntaxError")
    ELSE IF doc = NullDoc THEN JsonCaught("TypeError")
    ELSE LET data == IF "data" \in DOMAIN doc THEN doc.data ELSE doc
             raw  == IF "activities" \in DOMAIN data THEN data.activities ELSE <<>>
             activities == [i \in 1..Len(raw) |-> SanitizeActivity(raw[i], i)]
         IN  IF \E i \in 1..Len(raw) : activities[i] = TypeError
             THEN JsonCaught("TypeError")
             ELSE [success |-> TRUE,
                   message |-> <<"JSON procesado", Len(activities)>>,
                   data    |-> WithConfig(data,
                               [categories |-> IF "categories" \in DOMAIN data
                                               THEN data.categories ELSE <<>>,
                                activities |-> activities,
                                dayStyles  |-> IF "dayStyles" \in DOMAIN data
                                               THEN data.dayStyles ELSE <<>>])]

\* ImportService.fromJSON(content, existingCategories)
FromJSON(doc) ==
    IF doc = MalformedJson THEN JsonCaught("SyntaxError")
    ELSE IF doc = NullDoc THEN JsonCaught("TypeError")      \* parsed.data
    ELSE LET data == IF "data" \in DOMAIN doc THEN doc.data ELSE doc
             raw  == IF "activities" \in DOMAIN data THEN data.activities ELSE <<>>
             activities == [i \in 1..Len(raw) |-> SanitizeActivity(raw[i], i)]
         IN  IF "activities" \notin DOMAIN data /\ "categories" \notin DOMAIN data
             THEN [success |-> FALSE,
                   message |-> "JSON sin datos de actividades o categorias validos."]
             ELSE IF \E i \in 1..Len(raw) : activities[i] = TypeError
             THEN JsonCaught("TypeError")
             ELSE [success |-> TRUE,
                   message |-> <<"JSON procesado", Len(activities)>>,
                   data    |-> WithConfig(data,
                               [categories |-> IF "categories" \in DOMAIN data
                                               THEN data.categories ELSE <<>>,
                                activities |-> activities,
                                dayStyles  |-> IF "dayStyles" \in DOMAIN data
                                               THEN data.dayStyles ELSE <<>>])]

CsvHeaders ==
    <<<<"i", "d">>, <<"t", "i", "t", "l", "e">>, <<"s", "t", "a", "r", "t", "D", "a", "t", "e">>, <<"e", "n", "d", "D", "a", "t", "e">>, <<"p", "r", "o", "g", "r", "a", "m">>,
      <<"c", "a", "t", "e", "g", "o", "r", "y", "I", "d">>, <<"c", "a", "t", "e", "g", "o", "r", "y", "N", "a", "m", "e">>, <<"s", "t", "a", "t", "u", "s">>, <<"c", "o", "m", "p", "l", "e", "t", "e", "d">>,
      <<"d", "e", "s", "c", "r", "i", "p", "t", "i", "o", "n">>>>

\* What Array.prototype.join writes for a value: nothing for undefined
JoinText(v) == IF v = Undefined THEN <<>> ELSE v

\* state.categories.find(c => c.id === activity.categoryId)?.name
CategoryName(categories, categoryId) ==
    IF \E i \in 1..Len(categories) : categories[i].id = categoryId
    THEN categories[CHOOSE i \in 1..Len(categories) :
                        /\ categories[i].id = categoryId
                        /\ \A j \in 1..(i - 1) : categories[j].id # categoryId].name
    ELSE Undefined

\* The cells of one activity's row, as toCSV writes them
CsvCells(activity, categories) ==
    <<JoinText(Read(activity, "id")),
      QuoteField(OrElse(Read(activity, "title"), <<>>)),
      JoinText(Read(activity, "startDate")),
      JoinText(Read(activity, "endDate")),
      JoinText(Read(activity, "program")),
      OrElse(Read(activity, "categoryId"), <<>>),
      QuoteField(OrElse(CategoryName(categories, Read(activity, "categoryId")), <<>>)),
      OrElse(Read(activity, "status"), <<"a", "c", "t", "i", "v", "e">>),
      IF Truthy(Read(activity, "completed")) THEN <<"t", "r", "u", "e">> ELSE <<"f", "a", "l", "s", "e">>,
      QuoteField(OrElse(Read(activity, "description"), <<>>))>>

\* ExportService.toCSV(state)
ToCSV(state) ==
    JoinWith(<<JoinWith(CsvHeaders, ",")>> \o
             [i \in 1..Len(state.activities) |->
                 JoinWith(CsvCells(state.activities[i], state.categories), ",")],
             "\n")

(***************************************************************************)
(* SpecBackup: a state is exported (toCSV, toJSON) and the JSON document   *)
(* is imported again; documents of other origin are imported too           *)
(***************************************************************************)
May05 == IsoText([y |-> 2026, m |-> 5, d |-> 5])
May10 == IsoText([y |-> 2026, m |-> 5, d |-> 10])

\* Activities as the application's handlers leave them in the state
ActivityPool ==
    { [id |-> <<"i", "1">>, title |-> <<"E", "n", "s", "a", "y", "o">>, startDate |-> May05,
       endDate |-> May10, color |-> DefaultColor, program |-> <<"O", "r", "q", "u", "e", "s", "t", "a">>,
       categoryId |-> <<"c", "1">>, status |-> <<"a", "c", "t", "i", "v", "e">>, description |-> <<"d">>],
      \* a title with a leading blank, a comma and a quote; a postponed
      \* activity with its forward reference
      [id |-> <<"i", "2">>, title |-> <<" ", "a", ",", Quote>>, startDate |-> May05,
       endDate |-> May05, color |-> DefaultColor, program |-> <<"C", "o", "r", "o", " ", "I", "n", "f", "a", "n", "t", "i", "l">>,
       categoryId |-> <<>>, status |-> <<"p", "o", "s", "t", "p", "o", "n", "e", "d">>, completed |-> True,
       rescheduledToId |-> <<"i", "3">>],
      \* the re-programmed copy made by handlePostponeActivity
      [id |-> <<"i", "3">>, title |-> <<"a", " ", "(", "R", "e", "-", "p", "r", "o", "g", "r", "a", "m", "a", "d", "o", ")">>, startDate |-> May10,
       endDate |-> May10, color |-> DefaultColor, program |-> <<"C", "o", "r", "o", " ", "J", "u", "v", "e", "n", "i", "l">>,
       categoryId |-> <<>>, status |-> <<"a", "c", "t", "i", "v", "e">>, completed |-> False,
       rescheduledToId |-> Undefined],
      \* a program proposed by the AI service that is not of the enumeration;
      \* a description of two lines
      [id |-> <<"i", "4">>, title |-> <<"G", "a", "l", "a">>, startDate |-> May10,
       endDate |-> May10, color |-> DefaultColor, program |-> <<"B", "a", "n", "d", "a">>,
       status |-> <<"s", "u", "s", "p", "e", "n", "d", "e", "d">>, description |-> <<"d", "\n", "d">>],
      \* created on the canvas form with both date inputs cleared
      [id |-> <<"i", "5">>, title |-> <<"T", "a", "l", "l", "e", "r">>, startDate |-> <<>>,
       endDate |-> <<>>, color |-> DefaultColor, program |-> <<"G", "e", "n", "e", "r", "a", "l">>,
       categoryId |-> <<>>, status |-> <<"a", "c", "t", "i", "v", "e">>],
      \* the end date typed before the start date
      [id |-> <<"i", "6">>, title |-> <<"G", "i", "r", "a">>, startDate |-> May10,
       endDate |-> May05, color |-> DefaultColor, program |-> <<"C", "o", "r", "o">>,
       categoryId |-> <<"c", "9">>, status |-> <<"a", "c", "t", "i", "v", "e">>],
      \* Math.random() drew 0: the identifier is the empty string
      [id |-> <<>>, title |-> <<"C", "o", "r", "o">>, startDate |-> May05,
       endDate |-> May10, color |-> DefaultColor, program |-> <<"C", "o", "r", "o">>,
       categoryId |-> <<"c", "1">>, status |-> <<"a", "c", "t", "i", "v", "e">>] }

Categories == <<[id |-> <<"c", "1">>, name |-> <<"S", "a", "l", "a", " ", Quote, "A", Quote>>, color |-> <<"#", "f", "f", "0", "0", "0", "0">>]>>

RECURSIVE SeqsUpTo(_, _)
SeqsUpTo(S, n) ==
    IF n = 0 THEN {<<>>}
    ELSE LET shorter == SeqsUpTo(S, n - 1)
         IN  shorter \cup {Append(q, x) : q \in {r \in shorter : Len(r) = n - 1},
                                          x \in S}

AppStates ==
    {[EmptyState EXCEPT !.categories = Categories, !.activities = acts] :
        acts \in SeqsUpTo(ActivityPool, MaxActs)}

\* Documents that were not written by toJSON: a bare state object whose
\* records lack fields, a document with neither key, and a broken text
ForeignDocs ==
    { [activities |-> <<[title |-> <<"C", "o", "r", "o", " ", "j", "u", "v", "e", "n", "i", "l">>, program |-> <<"c", "o", "r", "o", " ", "j", "u", "v">>,
                         status |-> <<"S", "u", "s", "p", "e", "n", "d", "i", "d", "a">>],
                        [startDate |-> May10, endDate |-> May05,
                         program |-> <<"C", "O", "R", "O">>, status |-> <<"p", "o", "s", "t">>]>>],
      [categories |-> Categories],
      [data |-> [activities |-> <<>>, categories |-> <<>>]],
      [version |-> "1.5.1"],
      [data |-> [config |-> [year |-> 2026]]],
      \* texts in which two words of a table occur
      [activities |-> <<[title |-> <<"G", "a", "l", "a">>, program |-> <<"C", "o", "r", "o", " ", "y", " ", "O", "r", "q", "u", "e", "s", "t", "a">>,
                         status |-> <<"s", "u", "s", "p", "e", "n", "d", "e", "d", ",", " ", "p", "o", "s", "t", "p", "o", "n", "e", "d">>]>>],
      \* records that are not activities
      [activities |-> <<[title |-> <<"G", "a", "l", "a">>], NullRecord>>],
      [activities |-> <<[title |-> NumberSeven, completed |-> NumberSeven,
                         program |-> JsNull, status |-> NumberZero]>>],
      [activities |-> <<[title |-> <<"G", "a", "l", "a">>, program |-> NumberSeven]>>],
      [activities |-> <<[title |-> <<"G", "a", "l", "a">>, status |-> True]>>],
      NullDoc,
      MalformedJson }

InitBackup ==
    /\ IdleEnv
    /\ IdleDate
    /\ IdleTok
    /\ IdleCSV
    /\ IdleSanitize
    /\ IdleStyles
    /\ IdleApp
    /\ csvText = <<>>
    /\ jsonResult = NoDoc
    /\ \/ /\ appState \in AppStates
          /\ jsonDoc = NoDoc
          /\ bkPc = "state"
       \/ /\ appState = EmptyState
          /\ jsonDoc \in ForeignDocs
          /\ bkPc = "document"

\* ExportService.toCSV(state)
ExportCSV ==
    /\ bkPc = "state"
    /\ csvText' = ToCSV(appState)
    /\ bkPc' = "csv"
    /\ UNCHANGED <<envVars, appVars, sanVars, styVars, dateVars, tokVars, csvVars, appState, jsonDoc, jsonResult>>

\* ExportService.toJSON(state)
ExportJSON ==
    /\ bkPc = "state"
    /\ jsonDoc' = ToJSON(appState)
    /\ bkPc' = "document"
    /\ UNCHANGED <<envVars, appVars, sanVars, styVars, dateVars, tokVars, csvVars, appState, csvText, jsonResult>>

\* ImportService.fromJSON(content, state.categories)
ImportJSON ==
    /\ bkPc = "document"
    /\ jsonResult' = FromJSON(jsonDoc)
    /\ bkPc' = "imported"
    /\ UNCHANGED <<envVars, appVars, sanVars, styVars, dateVars, tokVars, csvVars, appState, csvText, jsonDoc>>

NextBackup == ExportCSV \/ ExportJSON \/ ImportJSON

SpecBackup == InitBackup /\ [][NextBackup]_vars

(***************************************************************************)
(* ImportService.fromCSV                                                   *)
(***************************************************************************)
\* s.split(/\r?\n/): the pieces between line feeds, a carriage return
\* before a line feed being part of the separator
SplitOnLineEnds(s) ==
    LET feeds  == {j \in 1..Len(s) : s[j] = "\n"}
        n      == Cardinality(feeds)
        \* the position of the k-th line feed; 0 and Len(s) + 1 at the ends
        Feed(k) == IF k = 0 THEN 0
                   ELSE IF k = n + 1 THEN Len(s) + 1
                   ELSE CHOOSE j \in feeds :
                            Cardinality({m \in feeds : m < j}) = k - 1
        Piece(k) ==
            LET from == Feed(k - 1) + 1
                to   == Feed(k) - 1
            IN  IF k <= n /\ to >= from /\ s[to] = "\r"
                THEN SubSeq(s, from, to - 1)
                ELSE SubSeq(s, from, to)
    IN  [k \in 1..(n + 1) |-> Piece(k)]

NotBlank(l) == Trim(l) # <<>>

\* content.trim().split(/\r?\n/).filter(l => l.trim())
SplitLines(content) ==
    SelectSeq(SplitOnLineEnds(Trim(content)), NotBlank)

\* lines[0].includes(';') ? ';' : ','
DetectDelimiter(header) == IF Includes(header, <<";">>) THEN ";" ELSE ","

\* parseCSVLine(lines[0], delimiter).map(h => h.toLowerCase().trim())
Headers(header, delimiter) ==
    LET cells == ParseCSVLine(header, delimiter)
    IN  [j \in 1..Len(cells) |-> Trim(ToLowerCase(cells[j]))]

IsTitleHeader(h) ==
    Includes(h, <<"t", "i", "t">>) \/ h = <<"e", "v", "e", "n", "t", "o">> \/ Includes(h, <<"a", "c", "t", "i", "v", "i", "d", "a", "d">>)

IsStartHeader(h) ==
    \/ Includes(h, <<"s", "t", "a", "r", "t">>) \/ Includes(h, <<"i", "n", "i">>)
    \/ h = <<"d", "e", "s", "d", "e">> \/ Includes(h, <<"f", "e", "c", "h", "a">>)

IsEndHeader(h) == Includes(h, <<"e", "n", "d">>) \/ Includes(h, <<"f", "i", "n">>) \/ h = <<"h", "a", "s", "t", "a">>

IsProgHeader(h) == Includes(h, <<"p", "r", "o", "g">>)

IsCatHeader(h) == Includes(h, <<"c", "a", "t">>)

IsDescHeader(h) ==
    Includes(h, <<"d", "e", "s", "c">>) \/ h = <<"n", "o", "t", "a", "s">> \/ Includes(h, <<"d", "e", "t", "a", "l", "l">>)

\* Array.prototype.findIndex, counted from 0; -1 when no element passes
\* passes[j] tells whether the j-th element passes the test
FindIndex(passes) ==
    IF \E j \in 1..Len(passes) : passes[j]
    THEN (CHOOSE j \in 1..Len(passes) :
              passes[j] /\ \A k \in 1..(j - 1) : ~passes[k]) - 1
    ELSE -1

ColumnIndexes(headers) ==
    LET cols == 1..Len(headers) IN
    [title |-> FindIndex([j \in cols |-> IsTitleHeader(headers[j])]),
     start |-> FindIndex([j \in cols |-> IsStartHeader(headers[j])]),
     end   |-> FindIndex([j \in cols |-> IsEndHeader(headers[j])]),
     prog  |-> FindIndex([j \in cols |-> IsProgHeader(headers[j])]),
     cat   |-> FindIndex([j \in cols |-> IsCatHeader(headers[j])]),
     desc  |-> FindIndex([j \in cols |-> IsDescHeader(headers[j])])]

\* row[j] for an index counted from 0: undefined outside the row
At(row, j) == IF j + 1 \in 1..Len(row) THEN row[j + 1] ELSE Undefined

MissingTitle(rowNo) == [row |-> rowNo, text |-> "Falta titulo"]

EndBeforeStart(rowNo) ==
    [row |-> rowNo, text |-> "La fecha de fin era anterior al inicio"]

InvalidStart(rowNo, title, raw) ==
    [row |-> rowNo, title |-> title, raw |-> raw,
     text |-> "Formato de fecha de inicio invalido"]

NothingAdded == [activities |-> <<>>, warnings |-> <<>>, errors |-> <<>>]

\* An end of the loop body that takes the category from the category column
AddActivityWithCategory(row, idx, rowNo, title, startDt, n, zone, eng) ==
    LET parsedEnd == IF idx.end # -1
                     THEN ParseFlexibleDate(At(row, idx.end), zone, eng)
                     ELSE startDt
        endDt     == IF parsedEnd.valid THEN parsedEnd ELSE startDt
        clamp     == IsAfter(startDt, endDt)
        finalEnd  == IF clamp THEN startDt ELSE endDt
    IN  [activities |->
            <<[id          |-> RandomId(n),
               title       |-> Trim(title),
               startDate   |-> Format(startDt, zone),
               endDate     |-> Format(finalEnd, zone),
               program     |-> ValidateProgram(IF idx.prog # -1
                                               THEN At(row, idx.prog)
                                               ELSE <<>>),
               categoryId  |-> IF idx.cat # -1 THEN At(row, idx.cat)
                               ELSE Undefined,
               color       |-> DefaultColor,
               status      |-> <<"a", "c", "t", "i", "v", "e">>,
               completed   |-> False,
               description |-> IF idx.desc # -1 THEN At(row, idx.desc)
                               ELSE <<>>]>>,
         warnings |-> IF clamp THEN <<EndBeforeStart(rowNo)>> ELSE <<>>,
         errors   |-> <<>>]

\* The end of the loop body: the row has a title and a start date
AddActivity(row, idx, rowNo, title, startDt, n, zone, eng) ==
    LET parsedEnd == IF idx.end # -1
                     THEN ParseFlexibleDate(At(row, idx.end), zone, eng)
                     ELSE startDt
        endDt     == IF parsedEnd.valid THEN parsedEnd ELSE startDt
        clamp     == IsAfter(startDt, endDt)
        finalEnd  == IF clamp THEN startDt ELSE endDt
    IN  [activities |->
            <<[id          |-> RandomId(n),
               title       |-> Trim(title),
               startDate   |-> Format(startDt, zone),
               endDate     |-> Format(finalEnd, zone),
               program     |-> ValidateProgram(IF idx.prog # -1
                                               THEN At(row, idx.prog)
                                               ELSE <<>>),
               categoryId  |-> Undefined,
               color       |-> DefaultColor,
               status      |-> <<"a", "c", "t", "i", "v", "e">>,
               completed   |-> False,
               description |-> IF idx.desc # -1 THEN At(row, idx.desc)
                               ELSE <<>>]>>,
         warnings |-> IF clamp THEN <<EndBeforeStart(rowNo)>> ELSE <<>>,
         errors   |-> <<>>]

\* A loop body that looks at the start date before it looks at the title
ImportRowDateFirst(line, delimiter, idx, rowNo, n, zone, eng) ==
    LET row     == ParseCSVLine(line, delimiter)
        title   == OrElse(At(row, idx.title), <<>>)
        startDt == ParseFlexibleDate(At(row, idx.start), zone, eng)
    IN  IF Len(row) < 2 THEN NothingAdded
        ELSE IF ~startDt.valid
        THEN [NothingAdded EXCEPT !.errors =
                 <<InvalidStart(rowNo, title, At(row, idx.start))>>]
        ELSE IF ~Truthy(title)
        THEN [NothingAdded EXCEPT !.warnings = <<MissingTitle(rowNo)>>]
        ELSE AddActivity(row, idx, rowNo, title, startDt, n, zone, eng)

\* The body of the loop of fromCSV for the line numbered rowNo (the header
\* is line 1): what it appends to activities, warnings and errors
ImportRow(line, delimiter, idx, rowNo, n, zone, eng) ==
    LET row     == ParseCSVLine(line, delimiter)
        title   == OrElse(At(row, idx.title), <<>>)
        startDt == ParseFlexibleDate(At(row, idx.start), zone, eng)
    IN  IF Len(row) < 2 THEN NothingAdded
        ELSE IF ~Truthy(title)
        THEN [NothingAdded EXCEPT !.warnings = <<MissingTitle(rowNo)>>]
        ELSE IF ~startDt.valid
        THEN [NothingAdded EXCEPT !.errors =
                 <<InvalidStart(rowNo, title, At(row, idx.start))>>]
        ELSE AddActivity(row, idx, rowNo, title, startDt, n, zone, eng)

(***************************************************************************)
(* SpecCSV: fromCSV runs on a content, one row of the loop at a time       *)
(***************************************************************************)
HeaderLine == <<"t", "i", "t", "u", "l", "o", ",", "i", "n", "i", "c", "i", "o", ",", "f", "i", "n", ",", "p", "r", "o", "g", "r", "a", "m", "a">>

RowPool ==
    { <<"E", "n", "s", "a", "y", "o", ",", "2", "0", "2", "6", "-", "0", "5", "-", "0", "5", ",", "2", "0", "2", "6", "-", "0", "5", "-", "1", "0", ",", "O", "r", "q", "u", "e", "s", "t", "a">>,
      <<"G", "i", "r", "a", ",", "2", "0", "2", "6", "-", "0", "5", "-", "1", "0", ",", "2", "0", "2", "6", "-", "0", "5", "-", "0", "5", ",", "C", "o", "r", "o">>,       \* the end before the start
      <<"G", "i", "r", "a", ",", "1", "0", "/", "0", "5", "/", "2", "0", "2", "6", ",", "0", "5", "/", "0", "5", "/", "2", "0", "2", "6", ",">>,
      <<",", "2", "0", "2", "6", "-", "0", "5", "-", "0", "5", ",", "2", "0", "2", "6", "-", "0", "5", "-", "1", "0", ",", "C", "o", "r", "o">>,           \* no title
      <<",", "x", ",", "2", "0", "2", "6", "-", "0", "5", "-", "0", "5", ",", "C", "o", "r", "o">>,                    \* no title, no start date
      <<"G", "a", "l", "a", ",", "x", ",", "2", "0", "2", "6", "-", "0", "5", "-", "0", "5", ",", "C", "o", "r", "o">>,                \* no start date
      <<"G", "a", "l", "a", ",", "2", "0", "2", "6", "-", "0", "5", "-", "0", "5", ",", "x", ",", "C", "o", "r", "o">>,                \* no end date
      <<"E">>,                                     \* a single field
      <<Quote, "a", ",", " ", "b", Quote, " ", ",", "1", "3", "/", "0", "5", "/", "2", "0", "2", "6">>,                  \* a quoted comma, two fields
      <<"T", "a", "l", "l", "e", "r", ",", "3", "1", "/", "0", "2", "/", "2", "0", "2", "6", ",", ",">>,
      <<" ", " ">> }                                   \* a blank line

FromLines(ls) == JoinWith(ls, "\n")

\* Two rows under a header without end column; the second has no program
Scenario1 ==
    FromLines(<<<<"F", "e", "c", "h", "a", ",", "T", "i", "t", "u", "l", "o", ",", "P", "r", "o", "g", "r", "a", "m", "a">>,
                <<"2", "0", "2", "6", "-", "0", "3", "-", "1", "0", ",", "E", "n", "s", "a", "y", "o", " ", "G", "e", "n", "e", "r", "a", "l", ",", "O", "r", "q", "u", "e", "s", "t", "a">>,
                <<"2", "0", "2", "6", "-", "0", "3", "-", "1", "5", ",", "C", "o", "n", "c", "i", "e", "r", "t", "o", " ", "G", "a", "l", "a", ",">>>>)

\* A content with the columns toCSV writes for id, category and status
ExportedContent ==
    FromLines(<<<<"i", "d", ",", "t", "i", "t", "l", "e", ",", "s", "t", "a", "r", "t", "D", "a", "t", "e", ",", "e", "n", "d", "D", "a", "t", "e", ",", "p", "r", "o", "g", "r", "a", "m", ",", "c", "a", "t", "e", "g", "o", "r", "y", "I", "d", ",", "s", "t", "a", "t", "u", "s">>,
                <<"i", "2", ",", Quote, "a", Quote, ",", "2", "0", "2", "6", "-", "0", "5", "-", "0", "5", ",", "2", "0", "2", "6", "-", "0", "5", "-", "0", "5", ",", "C", "o", "r", "o", " ", "I", "n", "f", "a", "n", "t", "i", "l", ",", "c", "1", ",", "p", "o", "s", "t", "p", "o", "n", "e", "d">>,
                <<"i", "6", ",", Quote, "G", "i", "r", "a", Quote, ",", "2", "0", "2", "6", "-", "0", "5", "-", "1", "0", ",", "2", "0", "2", "6", "-", "0", "5", "-", "0", "5", ",", ",", "c", "9", ",", "s", "u", "s", "p", "e", "n", "d", "e", "d">>>>)

\* Contents with other headers, line ends and delimiters
OtherContents ==
    { <<>>,
      HeaderLine,
      <<"F", "e", "c", "h", "a", ",", "T", "i", "t", "u", "l", "o", ",", "P", "r", "o", "g", "r", "a", "m", "a", "\r", "\n", "2", "0", "2", "6", "-", "0", "5", "-", "0", "5", ",", "E", "n", "s", "a", "y", "o", ",", "C", "o", "r", "o", " ", "J", "u", "v", "e", "n", "i", "l", "\r", "\n">>,
      <<"F", "e", "c", "h", "a", ";", "E", "v", "e", "n", "t", "o", ";", "N", "o", "t", "a", "s", "\n", "1", "5", "/", "0", "5", "/", "2", "0", "2", "6", ";", "G", "a", "l", "a", ";", "a", ",", "b", "\n", "2", "0", "2", "6", "-", "0", "5", "-", "0", "5", ",", "G", "a", "l", "a", ",", "d">>,
      <<"E", "v", "e", "n", "t", "o", ",", "D", "e", "s", "d", "e", ",", "H", "a", "s", "t", "a", ",", "D", "e", "t", "a", "l", "l", "e", "s", "\n", "G", "a", "l", "a", ",", "2", "0", "2", "6", "-", "0", "5", "-", "1", "0", ",", "2", "0", "2", "6", "-", "0", "5", "-", "0", "5", ",", "d", "\n", "x">>,
      <<"N", "o", "m", "b", "r", "e", ",", "F", "e", "c", "h", "a", "\n", "G", "a", "l", "a", ",", "2", "0", "2", "6", "-", "0", "5", "-", "0", "5">>,
      <<"A", "c", "t", "i", "v", "i", "d", "a", "d", ",", "C", "a", "t", "e", "g", "o", "r", "i", "a", "\n", "G", "a", "l", "a", ",", "c", "1">>,
      <<"E", "v", "e", "n", "t", "o", "s", ",", "F", "e", "c", "h", "a", "\n", "G", "a", "l", "a", ",", "2", "0", "2", "6", "-", "0", "5", "-", "0", "5">>,
      Scenario1,
      ExportedContent,
      <<"t", "i", "t", "u", "l", "o", ",", "i", "n", "i", "c", "i", "o", "\r", "G", "a", "l", "a", ",", "2", "0", "2", "6", "-", "0", "5", "-", "0", "5", "\r", "G", "i", "r", "a", ",", "2", "0", "2", "6", "-", "0", "5", "-", "0", "6", "\r">>,
      <<"A", "c", "t", "i", "v", "i", "d", "a", "d", ",", "D", "e", "s", "d", "e", " ", "e", "l", ",", "H", "a", "s", "t", "a", " ", "e", "l", ",", "N", "o", "t", "a", "s", " ", "1", "\n", "G", "a", "l", "a", ",", "2", "0", "2", "6", "-", "0", "5", "-", "0", "5", ",", "2", "0", "2", "6", "-", "0", "5", "-", "0", "6", ",", "n">>,
      <<"I", "n", "i", "c", "i", "o", ",", "F", "I", "N", ",", "T", "i", "t", "u", "l", "o", ",", "t", "i", "t", "u", "l", "o", " ", "2", ",", "P", "r", "o", "g", "r", "a", "m", "a", ",", "D", "e", "s", "c", "r", "i", "p", "c", "i", "o", "n", "\n", "2", "0", "2", "6", "-", "0", "5", "-", "0", "5", ",", ",", "a", ",", "b", ",", "C", "o", "r", "o", ",", "d">> }

CsvContents ==
    {FromLines(<<HeaderLine>> \o rows) :
        rows \in SeqsUpTo(RowPool, MaxRows) \ {<<>>}}
    \cup OtherContents

InitCSV ==
    /\ InitEnv
    /\ IdleSanitize
    /\ IdleStyles
    /\ IdleApp
    /\ IdleDate
    /\ IdleTok
    /\ IdleBackup
    /\ csvContent \in CsvContents
    /\ csvLines = <<>>
    /\ csvDelimiter = ","
    /\ csvIdx = NoIdx
    /\ csvRowNo = 0
    /\ csvActivities = <<>>
    /\ csvWarnings = <<>>
    /\ csvErrors = <<>>
    /\ csvResult = NoDoc
    /\ csvPc = "content"

\* fromCSV up to the loop: the lines, the delimiter, the columns, and the
\* two early returns
CSVBegin ==
    /\ csvPc = "content"
    /\ LET lines     == SplitLines(csvContent)
           delimiter == DetectDelimiter(lines[1])
           idx       == ColumnIndexes(Headers(lines[1], delimiter))
       IN  /\ csvLines' = lines
           /\ IF Len(lines) < 2
              THEN /\ csvResult' = [success |-> FALSE,
                                    message |-> "El CSV no contiene suficientes datos."]
                   /\ csvPc' = "returned"
                   /\ UNCHANGED <<csvDelimiter, csvIdx, csvRowNo>>
              ELSE /\ csvDelimiter' = delimiter
                   /\ csvIdx' = idx
                   /\ IF idx.title = -1 \/ idx.start = -1
                      THEN /\ csvResult' = [success |-> FALSE,
                                            message |-> "No se encontraron las columnas criticas."]
                           /\ csvPc' = "returned"
                           /\ UNCHANGED csvRowNo
                      ELSE /\ csvRowNo' = 2
                           /\ csvPc' = "rows"
                           /\ UNCHANGED csvResult
    /\ UNCHANGED <<envVars, appVars, sanVars, styVars, dateVars, tokVars, bkVars, csvContent,
                   csvActivities, csvWarnings, csvErrors>>

\* A turn of the loop that leaves the loop when the row adds an error
CSVRowAborting ==
    /\ csvPc = "rows"
    /\ csvRowNo <= Len(csvLines)
    /\ LET out == ImportRow(csvLines[csvRowNo], csvDelimiter, csvIdx, csvRowNo,
                            Len(csvActivities) + 1, tz, engine)
       IN  /\ csvActivities' = csvActivities \o out.activities
           /\ csvWarnings' = csvWarnings \o out.warnings
           /\ csvErrors' = csvErrors \o out.errors
           /\ csvRowNo' = IF out.errors # <<>> THEN Len(csvLines) + 1
                          ELSE csvRowNo + 1
    /\ UNCHANGED <<envVars, appVars, sanVars, styVars, dateVars, tokVars, bkVars, csvContent, csvLines,
                   csvDelimiter, csvIdx, csvResult, csvPc>>

\* One turn of the loop
CSVRow ==
    /\ csvPc = "rows"
    /\ csvRowNo <= Len(csvLines)
    /\ LET out == ImportRow(csvLines[csvRowNo], csvDelimiter, csvIdx, csvRowNo,
                            Len(csvActivities) + 1, tz, engine)
       IN  /\ csvActivities' = csvActivities \o out.activities
           /\ csvWarnings' = csvWarnings \o out.warnings
           /\ csvErrors' = csvErrors \o out.errors
    /\ csvRowNo' = csvRowNo + 1
    /\ UNCHANGED <<envVars, appVars, sanVars, styVars, dateVars, tokVars, bkVars, csvContent, csvLines,
                   csvDelimiter, csvIdx, csvResult, csvPc>>

\* The return after the loop
CSVReturn ==
    /\ csvPc = "rows"
    /\ csvRowNo > Len(csvLines)
    /\ csvResult' =
          [success  |-> Len(csvActivities) > 0,
           message  |-> IF Len(csvActivities) > 0
                        THEN <<"CSV procesado", Len(csvActivities)>>
                        ELSE <<"No se pudieron procesar actividades validas del CSV.">>,
           data     |-> [activities |-> csvActivities],
           errors   |-> csvErrors,
           warnings |-> csvWarnings]
    /\ csvPc' = "returned"
    /\ UNCHANGED <<envVars, appVars, sanVars, styVars, dateVars, tokVars, bkVars, csvContent, csvLines,
                   csvDelimiter, csvIdx, csvRowNo, csvActivities, csvWarnings,
                   csvErrors>>

NextCSV == CSVBegin \/ CSVRow \/ CSVReturn

SpecCSV == InitCSV /\ [][NextCSV]_vars

(***************************************************************************)
(* Properties of parseCSVLine (checked under SpecTok)                      *)
(***************************************************************************)
Tokenized == tokPc = "done"

\* C6, as stated: quoting every field (inner quotes doubled), joining with
\* the delimiter and tokenizing the line gives back exactly the fields.
C6_RoundTripExact == Tokenized => tokOut = tokFields

\* C6, as the tokenizer behaves: the round trip gives back every field
\* without its surrounding whitespace, embedded delimiters and quotes kept;
\* the empty sequence of fields comes back as one empty field.
C6_RoundTripTrimmed ==
    Tokenized =>
        IF tokFields = <<>> THEN tokOut = <<<<>>>>
        ELSE tokOut = [j \in 1..Len(tokFields) |-> Trim(tokFields[j])]

\* Two fields went through the round trip: the first begins with a blank
\* and holds the delimiter, the second holds a double quote
C6_Witness ==
    /\ Tokenized
    /\ Len(tokFields) = 2
    /\ Len(tokFields[1]) = 2
    /\ tokFields[1][1] = " "
    /\ tokFields[1][2] = tokDelim
    /\ tokFields[2] = <<Quote>>
    /\ tokOut = <<<<tokDelim>>, <<Quote>>>>

(***************************************************************************)
(* Properties of the export and of fromJSON (checked under SpecBackup)     *)
(***************************************************************************)
\* fromJSON has run on the document toJSON wrote for appState
RoundTripped == bkPc = "imported" /\ jsonDoc = ToJSON(appState)

\* Well-formed: a non-empty title, program and status of their enumerations
WellFormed(a) ==
    /\ Truthy(Read(a, "title"))
    /\ Read(a, "program") \in ProgramTypes
    /\ Read(a, "status") \in ActivityStatuses

\* Complete: well-formed, with an identifier and both dates non-empty
Complete(a) ==
    /\ WellFormed(a)
    /\ Truthy(Read(a, "id"))
    /\ Truthy(Read(a, "startDate"))
    /\ Truthy(Read(a, "endDate"))

SameActivity(a, b) ==
    \A k \in {"id", "title", "startDate", "endDate", "program", "status"} :
        Read(a, k) = Read(b, k)

\* The import succeeded and gave back the exported activities, in order
Reproduced ==
    /\ jsonResult.success
    /\ Len(jsonResult.data.activities) = Len(appState.activities)
    /\ \A j \in 1..Len(appState.activities) :
           SameActivity(jsonResult.data.activities[j], appState.activities[j])

\* C1, as stated: for a state of well-formed activities, fromJSON(toJSON(
\* state)) succeeds with the same activities (id, title, dates, program,
\* status) in the same order.
C1_RoundTripWellFormed ==
    /\ RoundTripped
    /\ \A j \in 1..Len(appState.activities) : WellFormed(appState.activities[j])
    => Reproduced

\* C1, with the precondition the code needs: the activities are well-formed
\* and have a non-empty id, startDate and endDate.
C1_RoundTripComplete ==
    /\ RoundTripped
    /\ \A j \in 1..Len(appState.activities) : Complete(appState.activities[j])
    => Reproduced

\* Two complete activities went through the round trip, one of them of the
\* program "Coro Infantil" and postponed
C1_Witness ==
    /\ RoundTripped
    /\ Len(appState.activities) = 2
    /\ \A j \in 1..2 : Complete(appState.activities[j])
    /\ appState.activities[1].program = <<"C", "o", "r", "o", " ", "I", "n", "f", "a", "n", "t", "i", "l">>
    /\ appState.activities[1].status = <<"p", "o", "s", "t", "p", "o", "n", "e", "d">>
    /\ jsonResult.success

\* The ten values of an activity's row: what the columns of the header
\* stand for
CsvValues(a, categories) ==
    <<JoinText(Read(a, "id")),
      OrElse(Read(a, "title"), <<>>),
      JoinText(Read(a, "startDate")),
      JoinText(Read(a, "endDate")),
      JoinText(Read(a, "program")),
      OrElse(Read(a, "categoryId"), <<>>),
      OrElse(CategoryName(categories, Read(a, "categoryId")), <<>>),
      OrElse(Read(a, "status"), <<"a", "c", "t", "i", "v", "e">>),
      IF Truthy(Read(a, "completed")) THEN <<"t", "r", "u", "e">> ELSE <<"f", "a", "l", "s", "e">>,
      OrElse(Read(a, "description"), <<>>)>>

QuoteAll(values) == [j \in 1..Len(values) |-> QuoteField(values[j])]

\* C7: toCSV writes the ten-column header and then exactly one line per
\* activity; on every data line every value is double-quoted with inner
\* quotes doubled, and parseCSVLine(line, ',') gives exactly the ten values
\* of the activity.
C7_QuotedRowPerActivity ==
    bkPc = "csv" =>
        LET lines == SplitOnLineEnds(csvText)
            acts  == appState.activities
        IN  /\ Len(lines) = 1 + Len(acts)
            /\ lines[1] = JoinWith(CsvHeaders, ",")
            /\ \A j \in 1..Len(acts) :
                  LET values == CsvValues(acts[j], appState.categories)
                  IN  /\ lines[j + 1] = JoinWith(QuoteAll(values), ",")
                      /\ ParseCSVLine(lines[j + 1], ",") = values

\* The order of two yyyy-MM-dd texts ("-" sorts before the digits)
CharRank(c) == IF IsDigit(c) THEN DigitVal(c) + 1 ELSE 0

TextBefore(a, b) ==
    \E j \in 1..Len(b) :
        /\ j <= Len(a) + 1
        /\ SubSeq(a, 1, j - 1) = SubSeq(b, 1, j - 1)
        /\ j = Len(a) + 1 \/ CharRank(a[j]) < CharRank(b[j])

\* The activities of the ImportResults returned so far
ImportedActivities ==
    (IF bkPc = "imported" /\ jsonResult.success
     THEN {jsonResult.data.activities[j] :
              j \in 1..Len(jsonResult.data.activities)}
     ELSE {})
    \cup
    (IF csvPc = "returned" /\ "data" \in DOMAIN csvResult
     THEN {csvResult.data.activities[j] :
              j \in 1..Len(csvResult.data.activities)}
     ELSE {})

\* C8: every activity of an ImportResult, of fromJSON or of fromCSV, has
\* endDate >= startDate.
C8_EndNotBeforeStart ==
    \A a \in ImportedActivities : ~TextBefore(a.endDate, a.startDate)

(***************************************************************************)
(* Properties of fromCSV (checked under SpecCSV)                           *)
(***************************************************************************)
\* The row the loop is at: its cells, its title, its two dates as parsed
RowCells == ParseCSVLine(csvLines[csvRowNo], csvDelimiter)
RowTitle == OrElse(At(RowCells, csvIdx.title), <<>>)
RowStart == ParseFlexibleDate(At(RowCells, csvIdx.start), tz, engine)
RowEnd   == ParseFlexibleDate(At(RowCells, csvIdx.end), tz, engine)

\* What a turn of the loop did
NoActivityAdded == csvActivities' = csvActivities
NoWarningAdded  == csvWarnings' = csvWarnings
NoErrorAdded    == csvErrors' = csvErrors

OneActivityAdded ==
    /\ Len(csvActivities') = Len(csvActivities) + 1
    /\ SubSeq(csvActivities', 1, Len(csvActivities)) = csvActivities

OneWarningAdded ==
    /\ Len(csvWarnings') = Len(csvWarnings) + 1
    /\ SubSeq(csvWarnings', 1, Len(csvWarnings)) = csvWarnings

OneErrorAdded ==
    /\ Len(csvErrors') = Len(csvErrors) + 1
    /\ SubSeq(csvErrors', 1, Len(csvErrors)) = csvErrors

AddedActivity == csvActivities'[Len(csvActivities')]
AddedWarning  == csvWarnings'[Len(csvWarnings')]
AddedError    == csvErrors'[Len(csvErrors')]

\* The row has a title and a start date, and its end date parses to a day
\* before the start
RowEndsBeforeStart ==
    /\ Len(RowCells) >= 2
    /\ Truthy(RowTitle)
    /\ RowStart.valid
    /\ RowEnd.valid
    /\ IsAfter(RowStart, RowEnd)

\* C9: a row whose parsed end date precedes its parsed start date is
\* imported with endDate = startDate and exactly one warning citing the
\* row's number; start 2026-05-10 with end 2026-05-05 gives an activity with
\* startDate = endDate = 2026-05-10.
C9_ClampedToStart ==
    [][CSVRow /\ RowEndsBeforeStart =>
          /\ OneActivityAdded
          /\ AddedActivity.endDate = AddedActivity.startDate
          /\ OneWarningAdded
          /\ AddedWarning.row = csvRowNo
          /\ NoErrorAdded
          /\ (/\ At(RowCells, csvIdx.start) = May10
              /\ At(RowCells, csvIdx.end) = May05)
             => AddedActivity.startDate = May10 /\ AddedActivity.endDate = May10
      ]_vars

\* The three outcomes of C10 for the row the loop is at
RowHandled ==
    IF ~Truthy(RowTitle)
    THEN NoActivityAdded /\ OneWarningAdded /\ NoErrorAdded
    ELSE IF ~RowStart.valid
    THEN /\ NoActivityAdded
         /\ NoWarningAdded
         /\ OneErrorAdded
         /\ AddedError.row = csvRowNo
         /\ AddedError.raw = At(RowCells, csvIdx.start)
    ELSE (csvIdx.end # -1 /\ ~RowEnd.valid) =>
         /\ OneActivityAdded
         /\ AddedActivity.endDate = AddedActivity.startDate
         /\ NoWarningAdded
         /\ NoErrorAdded

InitImport == InitBackup \/ InitCSV

NextImport == NextBackup \/ NextCSV

SpecImport == InitImport /\ [][NextImport]_vars

(***************************************************************************)
(* Properties of both importers (checked under SpecImport)                 *)
(***************************************************************************)
\* The object fromJSON looks for the two keys in
JsonData == IF "data" \in DOMAIN jsonDoc THEN jsonDoc.data ELSE jsonDoc

\* A document fromJSON cannot read: malformed, or with neither key
JsonUnreadable ==
    \/ jsonDoc = MalformedJson
    \/ /\ "activities" \notin DOMAIN JsonData
       /\ "categories" \notin DOMAIN JsonData

\* A content that fails the structural tests of fromCSV: fewer than two
\* non-blank lines, or no title column, or no start-date column
CsvUnreadable ==
    \/ Len(csvLines) < 2
    \/ csvIdx.title = -1
    \/ csvIdx.start = -1

\* A failure: success = false, a message, no data
IsFailure(result) ==
    /\ ~result.success
    /\ "message" \in DOMAIN result
    /\ "data" \notin DOMAIN result

\* C11: a document-level failure (malformed JSON, JSON with neither an
\* activities nor a categories key, CSV of fewer than two non-empty lines,
\* CSV header without title column or without start-date column) is
\* returned as success = false with a message and without data.
C11_DocumentFailures ==
    /\ bkPc = "imported" /\ JsonUnreadable => IsFailure(jsonResult)
    /\ csvPc = "returned" /\ CsvUnreadable => IsFailure(csvResult)

\* fromJSON has failed on a document with a data wrapper that holds neither
\* key
C11_WitnessJson ==
    /\ bkPc = "imported"
    /\ "data" \in DOMAIN jsonDoc
    /\ JsonUnreadable
    /\ IsFailure(jsonResult)

(***************************************************************************)
(* Properties of the result of fromCSV (checked under SpecCSV)             *)
(***************************************************************************)
\* fromCSV has returned from a content that passed the structural tests
CsvImported == csvPc = "returned" /\ ~CsvUnreadable

DataRows == 2..Len(csvLines)

\* The data row numbered k, read as the row rules read it
CellsOf(k) == ParseCSVLine(csvLines[k], csvDelimiter)
TitleOf(k) == OrElse(At(CellsOf(k), csvIdx.title), <<>>)
StartOf(k) == ParseFlexibleDate(At(CellsOf(k), csvIdx.start), tz, engine)
EndOf(k)   == ParseFlexibleDate(At(CellsOf(k), csvIdx.end), tz, engine)

UntitledRow(k) == Len(CellsOf(k)) >= 2 /\ ~Truthy(TitleOf(k))

UndatedRow(k) ==
    Len(CellsOf(k)) >= 2 /\ Truthy(TitleOf(k)) /\ ~StartOf(k).valid

AcceptedRow(k) ==
    Len(CellsOf(k)) >= 2 /\ Truthy(TitleOf(k)) /\ StartOf(k).valid

ClampedRow(k) ==
    AcceptedRow(k) /\ EndOf(k).valid /\ IsAfter(StartOf(k), EndOf(k))

RowsCited(notices) == {notices[j].row : j \in 1..Len(notices)}

\* C12: after the structural tests success is true exactly when at least
\* one activity was produced, and no row ends the import: every accepted row
\* has its activity and every skipped or clamped row its warning or error
\* in the result, whatever the rows before it were.
C12_NoRowAborts ==
    CsvImported =>
        /\ csvResult.success = (Len(csvResult.data.activities) > 0)
        /\ Len(csvResult.data.activities)
              = Cardinality({k \in DataRows : AcceptedRow(k)})
        /\ RowsCited(csvResult.errors) = {k \in DataRows : UndatedRow(k)}
        /\ RowsCited(csvResult.warnings)
              = {k \in DataRows : UntitledRow(k) \/ ClampedRow(k)}
        /\ Len(csvResult.errors) = Cardinality(RowsCited(csvResult.errors))
        /\ Len(csvResult.warnings) = Cardinality(RowsCited(csvResult.warnings))

\* A row without start date was followed by a row that was imported
C12_Witness ==
    /\ CsvImported
    /\ Len(csvLines) = 3
    /\ UndatedRow(2)
    /\ AcceptedRow(3)
    /\ csvResult.success
    /\ Len(csvResult.data.activities) = 1
    /\ RowsCited(csvResult.errors) = {2}

\* The keywords of each role
TitleWords == {<<"t", "i", "t">>, <<"e", "v", "e", "n", "t", "o">>, <<"a", "c", "t", "i", "v", "i", "d", "a", "d">>}
StartWords == {<<"s", "t", "a", "r", "t">>, <<"i", "n", "i">>, <<"d", "e", "s", "d", "e">>, <<"f", "e", "c", "h", "a">>}
EndWords   == {<<"e", "n", "d">>, <<"f", "i", "n">>, <<"h", "a", "s", "t", "a">>}
ProgWords  == {<<"p", "r", "o", "g">>}
DescWords  == {<<"d", "e", "s", "c">>, <<"n", "o", "t", "a", "s">>, <<"d", "e", "t", "a", "l", "l">>}

\* The first header, counted from 0, that contains one of the words; -1 when
\* there is none
FirstContaining(headers, words) ==
    LET hits == {j \in 1..Len(headers) :
                    \E w \in words : Includes(headers[j], w)}
    IN  IF hits = {} THEN -1
        ELSE (CHOOSE j \in hits : \A k \in hits : j <= k) - 1

\* C13: each column role is the first header, in row order, whose
\* lower-cased name contains one of the role's keywords.
C13_RolesBySubstring ==
    csvPc \in {"rows", "returned"} /\ Len(csvLines) >= 2 =>
        LET headers == Headers(csvLines[1], csvDelimiter)
        IN  /\ csvIdx.title = FirstContaining(headers, TitleWords)
            /\ csvIdx.start = FirstContaining(headers, StartWords)
            /\ csvIdx.end   = FirstContaining(headers, EndWords)
            /\ csvIdx.prog  = FirstContaining(headers, ProgWords)
            /\ csvIdx.desc  = FirstContaining(headers, DescWords)

\* The row the j-th activity of the result was made from
RowOfActivity(j) ==
    CHOOSE k \in DataRows :
        /\ AcceptedRow(k)
        /\ Cardinality({m \in DataRows : m < k /\ AcceptedRow(m)}) = j - 1

ProgramCell(k) == IF csvIdx.prog # -1 THEN At(CellsOf(k), csvIdx.prog) ELSE <<>>

\* C14: every activity of fromCSV has a generated id (the j-th activity the
\* j-th identifier drawn, whatever the row holds), no category, status
\* active, completed false and the program coerced from the program column
\* (General when the cell is empty or missing); a row with title, start
\* date and an end date not before the start adds no warning and no error;
\* the two rows under Fecha,Titulo,Programa give two activities, Orquesta
\* and General, without warnings or errors.
C14_ActivitiesOfRows ==
    CsvImported =>
        LET acts == csvResult.data.activities IN
        /\ \A j \in 1..Len(acts) :
              /\ acts[j].id = RandomId(j)
              /\ acts[j].categoryId = Undefined
              /\ acts[j].status = <<"a", "c", "t", "i", "v", "e">>
              /\ acts[j].completed = False
              /\ acts[j].program = ValidateProgram(ProgramCell(RowOfActivity(j)))
              /\ ~Truthy(ProgramCell(RowOfActivity(j)))
                    => acts[j].program = <<"G", "e", "n", "e", "r", "a", "l">>
        /\ \A k \in DataRows :
              AcceptedRow(k) /\ ~ClampedRow(k) =>
                  /\ k \notin RowsCited(csvResult.warnings)
                  /\ k \notin RowsCited(csvResult.errors)
        /\ csvContent = Scenario1 =>
              /\ Len(acts) = 2
              /\ acts[1].program = <<"O", "r", "q", "u", "e", "s", "t", "a">>
              /\ acts[2].program = <<"G", "e", "n", "e", "r", "a", "l">>
              /\ csvResult.warnings = <<>>
              /\ csvResult.errors = <<>>

\* The content with id, category and status columns was imported: the two
\* activities have drawn identifiers, no category and status active
C14_Witness ==
    /\ CsvImported
    /\ csvContent = ExportedContent
    /\ Len(csvResult.data.activities) = 2
    /\ csvResult.data.activities[1].program = <<"C", "o", "r", "o", " ", "I", "n", "f", "a", "n", "t", "i", "l">>
    /\ csvResult.data.activities[2].program = <<"G", "e", "n", "e", "r", "a", "l">>
    /\ csvResult.data.activities[1].id # <<"i", "2">>
    /\ csvResult.data.activities[1].status = <<"a", "c", "t", "i", "v", "e">>
    /\ csvResult.data.activities[1].categoryId = Undefined

\* A line terminator of any convention
IsLineEnd(c) == c \in {"\n", "\r"}

\* The number of non-blank lines of a text under any line-ending convention:
\* the maximal runs without terminator that hold a non-blank character
NonBlankLineCount(s) ==
    Cardinality(
        {j \in 1..Len(s) :
            /\ ~IsLineEnd(s[j])
            /\ j = 1 \/ IsLineEnd(s[j - 1])
            /\ \E m \in j..Len(s) :
                  /\ ~IsSpace(s[m])
                  /\ \A q \in j..m : ~IsLineEnd(s[q])})

\* C15: fromCSV sees the non-blank lines of the content under LF, CRLF and
\* lone CR alike: a header and N non-blank data rows are N + 1 lines.
C15_AnyLineEnding ==
    csvPc \in {"rows", "returned"} =>
        Len(csvLines) = NonBlankLineCount(csvContent)

(***************************************************************************)
(* SpecSanitize: sanitizeActivity runs on a raw record                     *)
(***************************************************************************)
\* The values a field of a parsed JSON record is given in the model;
\* undefined stands for a field the record does not have
RawTitles    == {Undefined, <<>>, <<"G", "a", "l", "a">>, NumberSeven, JsNull}
RawPrograms  == {Undefined, <<"c", "o", "r", "o", " ", "j", "u", "v">>, <<"C", "O", "R", "O", " ", "I", "N", "F", "A", "N", "T", "I", "L">>, <<"B", "a", "n", "d", "a">>,
                 NumberSeven, JsNull}
RawStatuses  == {Undefined, <<"S", "u", "s", "p", "e", "n", "d", "i", "d", "a">>, <<"p", "o", "s", "t", "p", "o", "n", "e", "d">>, True, NumberZero}
RawStarts    == {Undefined, May10}
RawEnds      == {Undefined, <<>>, May05}
RawCompleted == {Undefined, True, False, NumberSeven}

RawActivities ==
    {JsonObject([title |-> t, program |-> p, status |-> s, startDate |-> b,
                 endDate |-> e, completed |-> c]) :
        t \in RawTitles, p \in RawPrograms, s \in RawStatuses,
        b \in RawStarts, e \in RawEnds, c \in RawCompleted}
    \cup {NullRecord}

InitSanitize ==
    /\ IdleEnv
    /\ IdleDate
    /\ IdleTok
    /\ IdleBackup
    /\ IdleCSV
    /\ IdleStyles
    /\ IdleApp
    /\ rawActivity \in RawActivities
    /\ sanitized = NoDoc
    /\ sanPc = "raw"

\* sanitizeActivity(rawActivity, existingCategories)
Sanitize ==
    /\ sanPc = "raw"
    /\ sanitized' = SanitizeActivity(rawActivity, 1)
    /\ sanPc' = "sanitized"
    /\ UNCHANGED <<envVars, appVars, styVars, dateVars, tokVars, bkVars, csvVars, rawActivity>>

NextSanitize == Sanitize

SpecSanitize == InitSanitize /\ [][NextSanitize]_vars

(***************************************************************************)
(* Properties of sanitizeActivity (checked under SpecSanitize)             *)
(***************************************************************************)
Sanitized == sanPc = "sanitized"

\* C16: sanitizeActivity raises for no raw record (null, fields that are
\* not strings, missing fields) and returns a title that is a non-empty
\* string, a program and a status of their enumerations, a boolean
\* completed, and the start date for a missing end date.
C16_AlwaysAnActivity ==
    Sanitized =>
        /\ sanitized # TypeError
        /\ IsString(sanitized.title) /\ sanitized.title # <<>>
        /\ sanitized.program \in ProgramTypes
        /\ sanitized.status \in ActivityStatuses
        /\ sanitized.completed \in {True, False}
        /\ ~Truthy(Read(rawActivity, "endDate"))
              => sanitized.endDate = sanitized.startDate

(***************************************************************************)
(* The coercion tables (checked under SpecImport)                          *)
(***************************************************************************)
ProgramTable ==
    <<[word |-> <<"o", "r", "q">>,      value |-> <<"O", "r", "q", "u", "e", "s", "t", "a">>],
      [word |-> <<"c", "o", "r", "o", " ", "i", "n", "f">>, value |-> <<"C", "o", "r", "o", " ", "I", "n", "f", "a", "n", "t", "i", "l">>],
      [word |-> <<"c", "o", "r", "o", " ", "j", "u", "v">>, value |-> <<"C", "o", "r", "o", " ", "J", "u", "v", "e", "n", "i", "l">>],
      [word |-> <<"c", "o", "r", "o">>,     value |-> <<"C", "o", "r", "o">>]>>

StatusTable ==
    <<[word |-> <<"p", "o", "s", "t">>, value |-> <<"p", "o", "s", "t", "p", "o", "n", "e", "d">>],
      [word |-> <<"s", "u", "s", "p">>, value |-> <<"s", "u", "s", "p", "e", "n", "d", "e", "d">>]>>

\* The value of the first entry, from the top, whose word occurs in the
\* lower-cased text; the default when no word occurs
Coerced(table, text, default) ==
    LET v    == ToLowerCase(OrElse(text, <<>>))
        hits == {j \in 1..Len(table) : Includes(v, table[j].word)}
    IN  IF hits = {} THEN default
        ELSE table[CHOOSE j \in hits : \A k \in hits : j <= k].value

\* C17: program and status are coerced by their ordered, case-insensitive
\* substring tables (General and active when no word occurs), and fromJSON
\* and fromCSV use the same program table.
C17_CoercionTables ==
    /\ bkPc = "imported" /\ jsonResult.success =>
          \A j \in 1..Len(jsonResult.data.activities) :
              /\ jsonResult.data.activities[j].program
                    = Coerced(ProgramTable,
                              Read(JsonData.activities[j], "program"),
                              <<"G", "e", "n", "e", "r", "a", "l">>)
              /\ jsonResult.data.activities[j].status
                    = Coerced(StatusTable,
                              Read(JsonData.activities[j], "status"),
                              <<"a", "c", "t", "i", "v", "e">>)
    /\ CsvImported =>
          \A j \in 1..Len(csvResult.data.activities) :
              csvResult.data.activities[j].program
                  = Coerced(ProgramTable, ProgramCell(RowOfActivity(j)),
                            <<"G", "e", "n", "e", "r", "a", "l">>)

\* fromJSON has coerced "coro juv" and "CORO", "Suspendida" and "post"
C17_Witness ==
    /\ bkPc = "imported"
    /\ jsonResult.success
    /\ Len(jsonResult.data.activities) = 2
    /\ Read(JsonData.activities[1], "program") = <<"c", "o", "r", "o", " ", "j", "u", "v">>
    /\ Read(JsonData.activities[2], "program") = <<"C", "O", "R", "O">>
    /\ jsonResult.data.activities[1].program = <<"C", "o", "r", "o", " ", "J", "u", "v", "e", "n", "i", "l">>
    /\ jsonResult.data.activities[2].program = <<"C", "o", "r", "o">>
    /\ jsonResult.data.activities[1].status = <<"s", "u", "s", "p", "e", "n", "d", "e", "d">>
    /\ jsonResult.data.activities[2].status = <<"p", "o", "s", "t", "p", "o", "n", "e", "d">>

\* A record sanitizeActivity raises for
Malformed(r) ==
    \/ r = NullRecord
    \/ NotAString(Read(r, "program"))
    \/ NotAString(Read(r, "status"))

\* The document holds a record sanitizeActivity raises for
HoldsMalformedRecord ==
    /\ jsonDoc \notin {MalformedJson, NullDoc}
    /\ "activities" \in DOMAIN JsonData
    /\ \E j \in 1..Len(JsonData.activities) : Malformed(JsonData.activities[j])

\* A value a call returned, not an exception that left it
IsImportResult(result) == "success" \in DOMAIN result

\* C18: no input makes fromJSON, fromCSV or parseFlexibleDate raise: the
\* importers return an ImportResult, with success = false when the text or
\* one record of a JSON document is malformed, and the parser returns a
\* date or null for every cell fromCSV hands it.
C18_FailuresAreValues ==
    /\ bkPc = "imported" =>
          /\ IsImportResult(jsonResult)
          /\ jsonDoc \in {MalformedJson, NullDoc} \/ HoldsMalformedRecord
                => ~jsonResult.success
    /\ csvPc = "returned" => IsImportResult(csvResult)
    /\ csvPc = "rows" /\ csvRowNo <= Len(csvLines) =>
          /\ RowStart.valid \/ RowStart = Null
          /\ RowEnd.valid \/ RowEnd = Null

\* fromJSON has returned a failure for a document whose second record is
\* null
C18_Witness ==
    /\ bkPc = "imported"
    /\ HoldsMalformedRecord
    /\ Len(JsonData.activities) = 2
    /\ JsonData.activities[2] = NullRecord
    /\ jsonResult = JsonCaught("TypeError")

(***************************************************************************)
(* Day styles: getDayStyle (CalendarCanvas) and handleSelectDay (App)       *)
(***************************************************************************)
\* dateStr.split('-'): the pieces between hyphens, empty ones kept
RECURSIVE SplitHyphenFrom(_, _, _)
SplitHyphenFrom(s, cur, acc) ==
    IF s = <<>> THEN Append(acc, cur)
    ELSE IF Head(s) = "-"
         THEN SplitHyphenFrom(Tail(s), <<>>, Append(acc, cur))
         ELSE SplitHyphenFrom(Tail(s), Append(cur, Head(s)), acc)

\* Number(piece): white space around the numeral is dropped, the empty
\* string is 0 and anything but a numeral is NaN.  (The pieces are made of
\* digits, letters and blanks: no sign, point or exponent occurs in them.)
Number(p) ==
    LET t == Trim(p) IN IF t = <<>> THEN 0 ELSE WholeNumeral(t)

\* parseSafeDate: new Date(year, month - 1, day) of the first three pieces;
\* a piece that is missing is undefined and gives NaN as a non-numeral does,
\* a NaN gives an Invalid Date, a year 0..99 is taken as 1900 + year, and
\* month and day roll over.
ParseSafeDate(dateStr, zone) ==
    LET pieces == SplitHyphenFrom(dateStr, <<>>, <<>>)
        n == [i \in 1..3 |-> IF i <= Len(pieces) THEN Number(pieces[i]) ELSE NaN]
        year == IF n[1] <= 99 THEN 1900 + n[1] ELSE n[1]
    IN  IF \E i \in 1..3 : n[i] = NaN THEN Null
        ELSE NewDateLocal(year, n[2] - 1, n[3], zone)

\* date-fns isValid
IsValid(d) == d.valid

\* The releases of date-fns that export isValid and isWithinInterval: in
\* release 2 isWithinInterval throws a RangeError unless start <= end, which
\* an Invalid Date never satisfies; from release 3 on it throws nothing and
\* takes the two ends in ascending order.
DateFnsReleases == {"v2", "v3"}

RangeError == [throws |-> "RangeError"]

\* isWithinInterval throws: `if (!(startTime <= endTime)) throw new RangeError`
InvalidInterval(start, end, lib) ==
    lib = "v2" /\ ~(start.valid /\ end.valid /\ start.t <= end.t)

\* isWithinInterval(date, { start, end }) when it does not throw: the time is
\* between the smaller and the larger end, which no NaN is.  (Release 2 gets
\* here with start <= end only, so ordering the ends changes nothing.)
IsWithinInterval(date, start, end) ==
    /\ date.valid /\ start.valid /\ end.valid
    /\ date.t >= (IF start.t <= end.t THEN start.t ELSE end.t)
    /\ date.t <= (IF start.t <= end.t THEN end.t ELSE start.t)

\* What the callback handed to find did for one style
Outcome(raises, matches) ==
    IF raises THEN "RangeError" ELSE IF matches THEN "true" ELSE "false"

\* Array.prototype.find: the first element whose test is true, undefined when
\* there is none; a test that throws ends the search with its exception.
Find(list, tests) ==
    LET done == {i \in 1..Len(list) : tests[i] # "false"} IN
    IF done = {} THEN NoStyle
    ELSE LET i == CHOOSE j \in done : \A k \in done : j <= k
         IN  IF tests[i] = "true" THEN list[i] ELSE RangeError

\* The callback of getDayStyle
DayStyleTest(s, date, zone, lib) ==
    IF ~Truthy(s.endDate) THEN Outcome(FALSE, s.startDate = Format(date, zone))
    ELSE LET start == ParseSafeDate(s.startDate, zone)
             end   == ParseSafeDate(s.endDate, zone)
         IN  IF ~IsValid(start) \/ ~IsValid(end) THEN "false"
             ELSE Outcome(InvalidInterval(start, end, lib),
                          IsWithinInterval(date, start, end))

GetDayStyle(date, styles, zone, lib) ==
    Find(styles, [i \in 1..Len(styles) |->
                     DayStyleTest(styles[i], date, zone, lib)])

\* The callback of handleSelectDay
SelectDayTest(s, date, zone, eng, lib) ==
    IF ~Truthy(s.endDate) THEN Outcome(FALSE, s.startDate = date)
    ELSE LET d     == NewDateFromString(date, zone, eng)
             start == NewDateFromString(s.startDate, zone, eng)
             end   == NewDateFromString(s.endDate, zone, eng)
         IN  Outcome(InvalidInterval(start, end, lib),
                     IsWithinInterval(d, start, end))

\* existingStyle of handleSelectDay(date)
HandleSelectDay(date, styles, zone, eng, lib) ==
    Find(styles, [i \in 1..Len(styles) |->
                     SelectDayTest(styles[i], date, zone, eng, lib)])

\* existingStyle of the handleSelectDay of the other App module:
\* state.dayStyles.find(s => s.startDate === date)
HandleSelectDayByStart(date, styles) ==
    Find(styles, [i \in 1..Len(styles) |->
                     Outcome(FALSE, styles[i].startDate = date)])

\* Day styles: single days, the interval 2026-03-10..2026-03-12, one that
\* overlaps it, one written without leading zeros, and ones whose start or
\* end is no date or whose end is before the start.
StylePool ==
    { [id |-> <<"h", "1">>, startDate |-> <<"2", "0", "2", "6", "-", "0", "3", "-", "1", "0">>, endDate |-> Undefined],
      [id |-> <<"h", "2">>, startDate |-> <<"2", "0", "2", "6", "-", "0", "3", "-", "1", "1">>, endDate |-> <<>>],
      [id |-> <<"r", "1">>, startDate |-> <<"2", "0", "2", "6", "-", "0", "3", "-", "1", "0">>, endDate |-> <<"2", "0", "2", "6", "-", "0", "3", "-", "1", "2">>],
      [id |-> <<"r", "2">>, startDate |-> <<"2", "0", "2", "6", "-", "0", "3", "-", "1", "1">>, endDate |-> <<"2", "0", "2", "6", "-", "0", "3", "-", "1", "3">>],
      [id |-> <<"r", "3">>, startDate |-> <<"2", "0", "2", "6", "-", "3", "-", "9">>, endDate |-> <<"2", "0", "2", "6", "-", "3", "-", "1", "0">>],
      [id |-> <<"u", "1">>, startDate |-> <<"b", "a", "d">>, endDate |-> <<"2", "0", "2", "6", "-", "0", "3", "-", "1", "2">>],
      [id |-> <<"u", "2">>, startDate |-> <<"2", "0", "2", "6", "-", "0", "3", "-", "1", "0">>, endDate |-> <<"b", "a", "d">>],
      [id |-> <<"e", "1">>, startDate |-> <<"2", "0", "2", "6", "-", "0", "3", "-", "1", "2">>, endDate |-> <<"2", "0", "2", "6", "-", "0", "3", "-", "1", "0">>] }

\* The days of the cells: 2026-03-09 .. 2026-03-13
CellDays == {[y |-> 2026, m |-> 3, d |-> d] : d \in 9..13}

InitStyles ==
    /\ InitEnv
    /\ IdleDate
    /\ IdleTok
    /\ IdleBackup
    /\ IdleCSV
    /\ IdleSanitize
    /\ IdleApp
    /\ dateFns \in DateFnsReleases
    /\ dayStyles \in SeqsUpTo(StylePool, MaxStyles)
    /\ cellDay \in CellDays
    /\ customStyle = NoStyle
    /\ existingStyle = NoStyle
    /\ styPc = "state"

\* const customStyle = getDayStyle(day), day being the local midnight that
\* eachDayOfInterval gives for the cell
RenderDay ==
    /\ styPc = "state"
    /\ customStyle' = GetDayStyle(NewDateLocal(cellDay.y, cellDay.m - 1, cellDay.d, tz),
                                  dayStyles, tz, dateFns)
    /\ styPc' = "rendered"
    /\ UNCHANGED <<envVars, appVars, dateVars, tokVars, bkVars, csvVars, sanVars,
                   dateFns, dayStyles, cellDay, existingStyle>>

\* onClick of a cell that was rendered: onSelectDay(dateIso) with
\* dateIso = format(day, 'yyyy-MM-dd')
SelectDay ==
    /\ styPc = "rendered"
    /\ customStyle # RangeError
    /\ existingStyle' = HandleSelectDay(IsoText(cellDay), dayStyles, tz, engine, dateFns)
    /\ styPc' = "selected"
    /\ UNCHANGED <<envVars, appVars, dateVars, tokVars, bkVars, csvVars, sanVars,
                   dateFns, dayStyles, cellDay, customStyle>>

\* The same click where the App module is the one whose handleSelectDay
\* compares the startDate alone
SelectDayByStart ==
    /\ styPc = "rendered"
    /\ customStyle # RangeError
    /\ existingStyle' = HandleSelectDayByStart(IsoText(cellDay), dayStyles)
    /\ styPc' = "selected"
    /\ UNCHANGED <<envVars, appVars, dateVars, tokVars, bkVars, csvVars, sanVars,
                   dateFns, dayStyles, cellDay, customStyle>>

NextStyles == RenderDay \/ SelectDay \/ SelectDayByStart

SpecStyles == InitStyles /\ [][NextStyles]_vars

(***************************************************************************)
(* Properties of the style lookups (checked under SpecStyles)              *)
(***************************************************************************)
\* The text is year-month-day numerals of a date of the calendar
IsDateText(text) ==
    LET toks == Tokens(text) IN
    /\ Len(toks) = 5
    /\ toks[1].k = "num" /\ IsSym(toks[2], "-") /\ toks[3].k = "num"
    /\ IsSym(toks[4], "-") /\ toks[5].k = "num"
    /\ ValidYMD(toks[1].v, toks[3].v, toks[5].v)

\* The day number of such a text
DayOfText(text) ==
    LET toks == Tokens(text) IN DaysFromCivil(toks[1].v, toks[3].v, toks[5].v)

HasEndDate(s) == s.endDate \notin {Undefined, <<>>}

\* The style has an endDate, and its startDate or endDate is no date or its
\* endDate is before its startDate
Degenerate(s) ==
    /\ HasEndDate(s)
    /\ \/ ~IsDateText(s.startDate)
       \/ ~IsDateText(s.endDate)
       \/ DayOfText(s.endDate) < DayOfText(s.startDate)

\* The style is to match the day: its startDate is the day when it has no
\* endDate, the day is in [startDate, endDate] when it has one
Governs(s, ymd) ==
    IF ~HasEndDate(s) THEN s.startDate = IsoText(ymd)
    ELSE /\ IsDateText(s.startDate) /\ IsDateText(s.endDate)
         /\ DayOfText(s.startDate) <= DaysFromCivil(ymd.y, ymd.m, ymd.d)
         /\ DaysFromCivil(ymd.y, ymd.m, ymd.d) <= DayOfText(s.endDate)

\* The first style of the list that is to match the day, undefined if none
FirstGoverning(styles, ymd) ==
    LET hits == {i \in 1..Len(styles) : Governs(styles[i], ymd)} IN
    IF hits = {} THEN NoStyle
    ELSE styles[CHOOSE i \in hits : \A k \in hits : i <= k]

Rendered == styPc \in {"rendered", "selected"}

\* C19: getDayStyle returns the first style in array order that matches the
\* day, or none; a style without endDate matches only the day equal to its
\* startDate, a style with endDate matches exactly the days of the inclusive
\* interval [startDate, endDate].
C19_FirstMatchingStyle ==
    Rendered => customStyle = FirstGoverning(dayStyles, cellDay)

\* A degenerate style is the answer of a lookup
IsDegenerateStyle(r) == r \in StylePool /\ Degenerate(r)

\* C20: a style whose startDate or endDate is unparseable, or whose endDate
\* precedes its startDate, matches no day and never makes a lookup raise an
\* error, neither getDayStyle nor handleSelectDay.
C20_DegenerateNeverMatchesNorRaises ==
    /\ Rendered => customStyle # RangeError /\ ~IsDegenerateStyle(customStyle)
    /\ styPc = "selected"
           => existingStyle # RangeError /\ ~IsDegenerateStyle(existingStyle)

(***************************************************************************)
(* Every data row is accounted for (checked under SpecCSV)                 *)
(***************************************************************************)
\* The notices that tell of a skipped row: the warnings for a blank title
\* and the errors for a bad start date
SkipNotices ==
    Cardinality({j \in 1..Len(csvResult.warnings) :
                    csvResult.warnings[j].text = "Falta titulo"})
    + Len(csvResult.errors)

\* C28: for a CSV that passes the structural checks every non-empty data
\* line yields exactly one activity or exactly one skip notice, so the
\* activities and the skip notices together are as many as the data rows.
C28_EveryRowAccounted ==
    CsvImported =>
        Len(csvResult.data.activities) + SkipNotices = Cardinality(DataRows)

(***************************************************************************)
(* The backup keeps the activities whole (checked under SpecBackup)        *)
(***************************************************************************)
\* The fields of an ActivityRange
ActivityFields ==
    {"id", "title", "startDate", "endDate", "color", "program", "categoryId",
     "description", "status", "rescheduledToId", "originalActivityId",
     "completed"}

\* C30: for every activity of the exported state, the activity that
\* fromJSON(toJSON(state)) returns equals it field for field, the postpone
\* links rescheduledToId and originalActivityId included.
C30_NoActivityDataLost ==
    RoundTripped =>
        /\ jsonResult.success
        /\ Len(jsonResult.data.activities) = Len(appState.activities)
        /\ \A j \in 1..Len(appState.activities) : \A k \in ActivityFields :
               Read(jsonResult.data.activities[j], k)
                  = Read(appState.activities[j], k)

(***************************************************************************)
(* The exports leave the state alone (checked under SpecBackup)            *)
(***************************************************************************)
\* The envelope's data holds the four collections of the state and nothing
\* else
CarriesState(doc, state) ==
    /\ DOMAIN doc.data = {"config", "categories", "activities", "dayStyles"}
    /\ doc.data.config = state.config
    /\ doc.data.categories = state.categories
    /\ doc.data.dayStyles = state.dayStyles
    /\ Len(doc.data.activities) = Len(state.activities)
    /\ \A j \in 1..Len(state.activities) : \A k \in ActivityFields :
           Read(doc.data.activities[j], k) = Read(state.activities[j], k)

\* C25: toJSON and toCSV leave config, categories, activities and dayStyles
\* of the input state as they were, and the envelope that toJSON returns
\* carries exactly these four collections under data.
C25_ExportsLeaveState ==
    [][bkPc = "state" =>
          /\ appState' = appState
          /\ bkPc' = "document" => CarriesState(jsonDoc', appState)]_vars

\* Both exports were made of a state of two activities: the state is the one
\* the envelope carries, and the CSV text has its three lines
C25_Witness ==
    /\ bkPc \in {"document", "csv"}
    /\ Len(appState.activities) = 2
    /\ appState.categories # <<>>
    /\ \/ bkPc = "document" /\ CarriesState(jsonDoc, appState)
       \/ bkPc = "csv" /\ csvText = ToCSV(appState) /\ csvText # <<>>

(***************************************************************************)
(* fromCSV and detectFormat as the handlers call them                      *)
(***************************************************************************)
\* activities.push, warnings.push and errors.push of one turn of the loop
Pushed(acc, out) ==
    [activities |-> acc.activities \o out.activities,
     warnings   |-> acc.warnings \o out.warnings,
     errors     |-> acc.errors \o out.errors]

\* The loop of fromCSV from row k on; drawn counts the identifiers that
\* Math.random has given out before the call
RECURSIVE ImportRows(_, _, _, _, _, _, _, _)
ImportRows(lines, k, delimiter, idx, drawn, acc, zone, eng) ==
    IF k > Len(lines) THEN acc
    ELSE ImportRows(lines, k + 1, delimiter, idx, drawn,
                    Pushed(acc, ImportRow(lines[k], delimiter, idx, k,
                                          drawn + Len(acc.activities) + 1,
                                          zone, eng)),
                    zone, eng)

\* The return after the loop
CsvResult(out) ==
    [success  |-> Len(out.activities) > 0,
     message  |-> IF Len(out.activities) > 0
                  THEN <<"CSV procesado", Len(out.activities)>>
                  ELSE <<"No se pudieron procesar actividades validas del CSV.">>,
     data     |-> [activities |-> out.activities],
     errors   |-> out.errors,
     warnings |-> out.warnings]

\* fromCSV once the lines are split
FromCSVLines(lines, delimiter, drawn, zone, eng) ==
    LET idx == ColumnIndexes(Headers(lines[1], delimiter)) IN
    IF idx.title = -1 \/ idx.start = -1
    THEN [success |-> FALSE,
          message |-> "No se encontraron las columnas criticas."]
    ELSE CsvResult(ImportRows(lines, 2, delimiter, idx, drawn, NothingAdded,
                              zone, eng))

\* ImportService.fromCSV(content, existingCategories)
FromCSV(content, drawn, zone, eng) ==
    LET lines == SplitLines(content) IN
    IF Len(lines) < 2
    THEN [success |-> FALSE,
          message |-> "El CSV no contiene suficientes datos."]
    ELSE FromCSVLines(lines, DetectDelimiter(lines[1]), drawn, zone, eng)

\* trimmed.startsWith(prefix)
StartsWith(s, prefix) ==
    Len(s) >= Len(prefix) /\ SubSeq(s, 1, Len(prefix)) = prefix

\* A detection that looks for the separators before the opening bracket
DetectFormatSeparatorsFirst(content) ==
    LET trimmed == Trim(content) IN
    IF Includes(trimmed, <<",">>) \/ Includes(trimmed, <<";">>) THEN "csv"
    ELSE IF StartsWith(trimmed, <<"{">>) \/ StartsWith(trimmed, <<"[">>) THEN "json"
    ELSE "unknown"

\* ImportService.detectFormat(content)
DetectFormat(content) ==
    LET trimmed == Trim(content) IN
    IF StartsWith(trimmed, <<"{">>) \/ StartsWith(trimmed, <<"[">>) THEN "json"
    ELSE IF Includes(trimmed, <<",">>) \/ Includes(trimmed, <<";">>) THEN "csv"
    ELSE "unknown"

(***************************************************************************)
(* The handlers of the App component and of the sidebar                    *)
(***************************************************************************)
Active    == <<"a", "c", "t", "i", "v", "e">>
Postponed == <<"p", "o", "s", "t", "p", "o", "n", "e", "d">>
Suspended == <<"s", "u", "s", "p", "e", "n", "d", "e", "d">>

\* { ...obj, k: v }
With(obj, k, v) ==
    [j \in DOMAIN obj \cup {k} |-> IF j = k THEN v ELSE obj[j]]

\* { ...a, ...b }
Merged(a, b) ==
    [j \in DOMAIN a \cup DOMAIN b |-> IF j \in DOMAIN b THEN b[j] ELSE a[j]]

\* activities.findIndex(a => a.id === id), counted from 1; 0 when there is
\* none
FindIndexById(list, id) ==
    LET hits == {j \in 1..Len(list) : list[j].id = id} IN
    IF hits = {} THEN 0 ELSE CHOOSE j \in hits : \A k \in hits : j <= k

\* list.filter(x => x.id !== id)
RECURSIVE WithoutId(_, _)
WithoutId(list, id) ==
    IF list = <<>> THEN <<>>
    ELSE IF Head(list).id = id THEN WithoutId(Tail(list), id)
    ELSE <<Head(list)>> \o WithoutId(Tail(list), id)

\* The state after addNotification(msg, type): the notice is put in front
\* and the list cut to 50
AddNotification(prev, msg, type) ==
    LET all == <<[message |-> msg, type |-> type]>> \o prev.notifications
    IN  [prev EXCEPT !.notifications =
            SubSeq(all, 1, IF Len(all) < 50 THEN Len(all) ELSE 50)]

\* The updater of handleAddActivity
AfterAdd(prev, activity) ==
    [prev EXCEPT !.activities = Append(@, With(activity, "status", Active))]

\* The updater of handleUpdateActivity
AfterUpdate(prev, activity) ==
    [prev EXCEPT !.activities =
        [j \in 1..Len(@) |-> IF @[j].id = activity.id THEN activity ELSE @[j]]]

\* The updater of handleRemoveActivity
AfterRemove(prev, id) ==
    [prev EXCEPT !.activities = WithoutId(@, id)]

\* The updater of handlePostponeActivity; newActivityId is what Math.random
\* gave
AfterPostpone(prev, id, newStart, newEnd, newActivityId) ==
    LET idx == FindIndexById(prev.activities, id) IN
    IF idx = 0 THEN prev
    ELSE LET original == prev.activities[idx]
             marked == With(With(original, "status", Postponed),
                            "rescheduledToId", newActivityId)
             rescheduled ==
                 [With(original, "rescheduledToId", Undefined) EXCEPT
                     !.id = newActivityId,
                     !.startDate = newStart,
                     !.endDate = newEnd,
                     !.status = Active,
                     !.title = original.title \o <<" ", "(", "R", "e", "-", "p", "r", "o", "g", "r", "a", "m", "a", "d", "o", ")">>]
         IN  [prev EXCEPT !.activities =
                 Append([@ EXCEPT ![idx] = marked],
                        With(rescheduled, "status", Active))]

\* The updater of handleSuspendActivity and of handleReactivateActivity
WithStatus(prev, id, status) ==
    [prev EXCEPT !.activities =
        [j \in 1..Len(@) |-> IF @[j].id = id THEN With(@[j], "status", status)
                             ELSE @[j]]]

\* An updater that also removes the activities and day styles of the
\* category
AfterRemoveCategoryCascading(prev, id) ==
    [prev EXCEPT
        !.categories = WithoutId(@, id),
        !.activities = SelectSeq(@, LAMBDA a : Read(a, "categoryId") # id),
        !.dayStyles = SelectSeq(@, LAMBDA s : Read(s, "categoryId") # id)]

\* The updater of handleRemoveCategory
AfterRemoveCategory(prev, id) ==
    [prev EXCEPT !.categories = WithoutId(@, id)]

\* The updater of removeNotification, for the notice at place k (its
\* identifier is its own)
AfterRemoveNotification(prev, k) ==
    [prev EXCEPT !.notifications =
        SubSeq(@, 1, k - 1) \o SubSeq(@, k + 1, Len(@))]

\* The sidebar modules of the repository: one calls the methods of
\* ImportService, the other the functions exported under the older names
Sidebars == {"ImportService", "legacy"}

\* importFromCSV(content, categories): fromCSV called without its object, so
\* that this.parseCSVLine raises a TypeError, which the catch clause returns
FromCSVDetached(content) ==
    IF Len(SplitLines(content)) < 2
    THEN [success |-> FALSE,
          message |-> "El CSV no contiene suficientes datos."]
    ELSE [success |-> FALSE, message |-> "Error critico procesando CSV.",
          errors |-> <<"TypeError">>]

Unsupported ==
    [success |-> FALSE, message |-> "Formato no soportado",
     errors |-> <<"JSON o CSV">>]

\* The importer that the onload callback of handleFileSelect calls for a
\* format
ImporterFor(formatType) ==
    IF formatType = "json" THEN "fromJSON"
    ELSE IF formatType = "csv" THEN "fromCSV" ELSE "none"

\* result of the onload callback of handleFileSelect
FileResult(file, formatType, which, drawn, zone, eng) ==
    IF formatType = "json" THEN FromJSON(file.json)
    ELSE IF formatType = "csv"
    THEN IF which = "legacy" THEN FromCSVDetached(file.text)
         ELSE FromCSV(file.text, drawn, zone, eng)
    ELSE Unsupported

\* !importPreview?.data
NoData(preview) == "data" \notin DOMAIN preview

\* An updater that puts the imported activities in the place of the
\* existing ones
AfterConfirmImportReplacing(prev, data, which) ==
    [prev EXCEPT !.activities = IF "activities" \in DOMAIN data
                                THEN data.activities ELSE <<>>]

\* The updater of handleConfirmImport
AfterConfirmImport(prev, data, which) ==
    LET activities == prev.activities \o
                         (IF "activities" \in DOMAIN data THEN data.activities
                          ELSE <<>>)
        imported   == IF "categories" \in DOMAIN data THEN data.categories
                      ELSE <<>>
    IN  IF which = "legacy"
        THEN [prev EXCEPT !.activities = activities,
                          !.categories = @ \o imported]
        ELSE [prev EXCEPT
                 !.activities = activities,
                 !.categories = @ \o imported,
                 !.dayStyles = IF "dayStyles" \in DOMAIN data
                               THEN @ \o data.dayStyles ELSE @,
                 !.config = IF "config" \in DOMAIN data
                            THEN Merged(@, data.config) ELSE @]

(***************************************************************************)
(* The application state under its handlers                                *)
(***************************************************************************)
AppCategories ==
    Categories \o <<[id |-> <<"c", "2">>, name |-> <<"N", "o", " ", "L", "a", "b", "o", "r", "a", "b", "l", "e", "s">>,
                     color |-> <<"#", "e", "f", "4", "4", "4", "4">>]>>

\* The state of a first start, and a state read back from localStorage in
\* which an activity and a day style of category c1 had been made
DefaultState == [EmptyState EXCEPT !.categories = AppCategories]

SavedState ==
    [DefaultState EXCEPT
        !.activities =
            <<[id |-> <<"k", "3", "v", "9", "x", "2", "m", "1", "q">>, title |-> <<"E", "n", "s", "a", "y", "o">>, startDate |-> May05,
               endDate |-> May05, program |-> <<"C", "o", "r", "o">>, categoryId |-> <<"c", "1">>,
               color |-> DefaultColor, status |-> Active]>>,
        !.dayStyles =
            <<[id |-> <<"s", "1">>, startDate |-> May05, categoryId |-> <<"c", "1">>]>>]

\* What the forms hand to onAddActivity, the identifier apart
ActivityForms ==
    { [title |-> <<"G", "a", "l", "a">>, startDate |-> May05, endDate |-> May05,
       program |-> <<"O", "r", "q", "u", "e", "s", "t", "a">>, categoryId |-> <<"c", "1">>,
       color |-> DefaultColor, status |-> Active] }

\* Titles typed into the day modal for an activity that exists
ModalTitles == { <<"E", "n", "s", "a", "y", "o">> }

\* Dates typed into the postpone field
PostponeDates == { May10 }

\* The beginning of the text that JSON.stringify(backup, null, 2) writes
BackupText == <<"{", "\n", " ", " ">> \o <<Quote>> \o <<"v", "e", "r", "s", "i", "o", "n">> \o <<Quote>> \o <<":", " ">>

\* A backup of another installation: one activity, one category, a config
ForeignBackup ==
    [version |-> "1.5.1", application |-> "Sinfonia Calendar Core",
     exportDate |-> Today,
     data |-> [config |-> [year |-> 2027],
               categories |-> <<[id |-> <<"c", "3">>, name |-> <<"G", "i", "r", "a", "s">>,
                                 color |-> <<"#", "2", "2", "c", "5", "5", "e">>]>>,
               activities |-> <<[id |-> <<"i", "1">>, title |-> <<"G", "i", "r", "a">>,
                                 startDate |-> May05, endDate |-> May10,
                                 color |-> DefaultColor, program |-> <<"C", "o", "r", "o">>,
                                 categoryId |-> <<"c", "3">>, status |-> Active]>>,
               dayStyles |-> <<[id |-> <<"s", "9">>, startDate |-> May10]>>]]

\* Files: the text, and for a text that starts like JSON (of which only the
\* beginning is written out) what JSON.parse makes of the whole of it
Files ==
    { [text |-> BackupText, json |-> ForeignBackup],
      [text |-> <<" ", "\n", "{">>, json |-> [config |-> [year |-> 2027]]],
      [text |-> <<"[", "1", ",", "2", ";", "3", "]">>, json |-> [length |-> 3]],
      [text |-> <<"{", "a", ",", "b">>, json |-> MalformedJson],
      [text |-> <<"t", "i", "t", "u", "l", "o", ",", "i", "n", "i", "c", "i", "o", "\n", "G", "a", "l", "a", ",", "2", "0", "2", "6", "-", "0", "5", "-", "0", "5", "\n", "C", "o", "r", "o", ",", "p", "r", "o", "n", "t", "o">>, json |-> MalformedJson],
      [text |-> <<"i", "n", "i", "c", "i", "o", ";", "t", "i", "t", "u", "l", "o", "\n", ";", "G", "a", "l", "a">>, json |-> MalformedJson],
      [text |-> <<"a", ",", "b", "\n", "c", ",", "d">>, json |-> MalformedJson],
      [text |-> <<"x", ";", "{">>, json |-> MalformedJson],
      [text |-> <<"h", "o", "l", "a">>, json |-> MalformedJson],
      [text |-> <<" ", "a", "{", "b", "}", "]", " ">>, json |-> MalformedJson],
      [text |-> <<" ", "\n">>, json |-> MalformedJson],
      [text |-> <<>>, json |-> MalformedJson] }

InitApp ==
    /\ InitEnv
    /\ IdleDate
    /\ IdleTok
    /\ IdleBackup
    /\ IdleCSV
    /\ IdleSanitize
    /\ IdleStyles
    /\ calendar \in {DefaultState, SavedState}
    /\ importPreview = NoDoc
    /\ fileFormat = "none"
    /\ fileImporter = "none"
    /\ backup = NoFile
    /\ idsDrawn = 0
    /\ lastOp = NoOp
    /\ before = calendar
    /\ showImportModal = FALSE
    /\ sidebar \in Sidebars
    /\ opsRun = 0

\* What every handler leaves alone
AppFrame ==
    UNCHANGED <<envVars, dateVars, tokVars, bkVars, csvVars, sanVars, styVars,
                sidebar>>

Ran(op) ==
    /\ opsRun < MaxOps
    /\ opsRun' = opsRun + 1
    /\ lastOp' = op
    /\ before' = calendar

\* handleAddActivity(activity), the identifier drawn by the form
HandleAddActivity ==
    \E form \in ActivityForms :
        LET activity == With(form, "id", RandomId(idsDrawn + 1)) IN
        /\ Ran([name |-> "add", activity |-> activity])
        /\ calendar' = AddNotification(AfterAdd(calendar, activity),
                                       <<activity.title, "agregada">>, "success")
        /\ idsDrawn' = idsDrawn + 1
        /\ UNCHANGED <<importPreview, fileFormat, fileImporter, backup,
                       showImportModal>>
        /\ AppFrame

\* handleUpdateActivity(activity), as the day modal calls it for an activity
\* of the state
HandleUpdateActivity ==
    \E j \in 1..Len(calendar.activities), title \in ModalTitles :
        LET activity == [calendar.activities[j] EXCEPT !.title = title] IN
        /\ Ran([name |-> "update", activity |-> activity])
        /\ calendar' = AfterUpdate(calendar, activity)
        /\ UNCHANGED <<importPreview, fileFormat, fileImporter, backup,
                       idsDrawn, showImportModal>>
        /\ AppFrame

\* handleRemoveActivity(a.id)
HandleRemoveActivity ==
    \E j \in 1..Len(calendar.activities) :
        /\ Ran([name |-> "remove", id |-> calendar.activities[j].id])
        /\ calendar' = AfterRemove(calendar, calendar.activities[j].id)
        /\ UNCHANGED <<importPreview, fileFormat, fileImporter, backup,
                       idsDrawn, showImportModal>>
        /\ AppFrame

\* handlePostponeActivity(a.id, postponeDate, postponeDate): the sidebar
\* offers it for an activity whose status is active
HandlePostponeActivity ==
    \E j \in 1..Len(calendar.activities), date \in PostponeDates :
        /\ Read(calendar.activities[j], "status") = Active
        /\ Ran([name |-> "postpone", id |-> calendar.activities[j].id,
                newStart |-> date, newEnd |-> date,
                newActivityId |-> RandomId(idsDrawn + 1)])
        /\ calendar' = AddNotification(
                          AfterPostpone(calendar, calendar.activities[j].id,
                                        date, date, RandomId(idsDrawn + 1)),
                          "Actividad pospuesta y reprogramada", "success")
        /\ idsDrawn' = idsDrawn + 1
        /\ UNCHANGED <<importPreview, fileFormat, fileImporter, backup,
                       showImportModal>>
        /\ AppFrame

\* handleSuspendActivity(a.id), offered for an activity whose status is
\* active
HandleSuspendActivity ==
    \E j \in 1..Len(calendar.activities) :
        /\ Read(calendar.activities[j], "status") = Active
        /\ Ran([name |-> "suspend", id |-> calendar.activities[j].id])
        /\ calendar' = AddNotification(
                          WithStatus(calendar, calendar.activities[j].id, Suspended),
                          "Actividad suspendida", "warning")
        /\ UNCHANGED <<importPreview, fileFormat, fileImporter, backup,
                       idsDrawn, showImportModal>>
        /\ AppFrame

\* handleReactivateActivity(a.id), offered for an activity whose status is
\* not active
HandleReactivateActivity ==
    \E j \in 1..Len(calendar.activities) :
        /\ Read(calendar.activities[j], "status") # Active
        /\ Ran([name |-> "reactivate", id |-> calendar.activities[j].id])
        /\ calendar' = AddNotification(
                          WithStatus(calendar, calendar.activities[j].id, Active),
                          "Actividad reactivada", "success")
        /\ UNCHANGED <<importPreview, fileFormat, fileImporter, backup,
                       idsDrawn, showImportModal>>
        /\ AppFrame

\* handleRemoveCategory(c.id)
HandleRemoveCategory ==
    \E j \in 1..Len(calendar.categories) :
        /\ Ran([name |-> "removeCategory", id |-> calendar.categories[j].id])
        /\ calendar' = AfterRemoveCategory(calendar, calendar.categories[j].id)
        /\ UNCHANGED <<importPreview, fileFormat, fileImporter, backup,
                       idsDrawn, showImportModal>>
        /\ AppFrame

\* The timer of addNotification: removeNotification(id)
ExpireNotification ==
    \E k \in 1..Len(calendar.notifications) :
        /\ lastOp' = [name |-> "removeNotification"]
        /\ before' = calendar
        /\ calendar' = AfterRemoveNotification(calendar, k)
        /\ UNCHANGED <<importPreview, fileFormat, fileImporter, backup,
                       idsDrawn, showImportModal, opsRun>>
        /\ AppFrame

\* The backup button: download(toJSON(state), ...)
HandleExportJSON ==
    /\ Ran([name |-> "export"])
    /\ backup' = [text |-> BackupText, json |-> ToJSON(calendar)]
    /\ UNCHANGED <<calendar, importPreview, fileFormat, fileImporter,
                   idsDrawn, showImportModal>>
    /\ AppFrame

\* handleFileSelect with the onload callback of its reader, for a file of
\* the pool or the backup downloaded before
HandleFileSelect ==
    \E file \in Files \cup (IF backup = NoFile THEN {} ELSE {backup}) :
        /\ Ran([name |-> "fileSelect", content |-> file.text])
        /\ IF sidebar = "legacy" /\ file.text = <<>>        \* if (!content) return
           THEN UNCHANGED <<importPreview, fileFormat, fileImporter,
                            idsDrawn, showImportModal>>
           ELSE /\ fileFormat' = DetectFormat(file.text)
                /\ fileImporter' = ImporterFor(fileFormat')
                /\ importPreview' = FileResult(file, fileFormat', sidebar,
                                               idsDrawn, tz, engine)
                /\ showImportModal' = TRUE
                /\ idsDrawn' = IF fileFormat' = "csv" /\ ~NoData(importPreview')
                               THEN idsDrawn + Len(importPreview'.data.activities)
                               ELSE idsDrawn
        /\ UNCHANGED <<calendar, backup>>
        /\ AppFrame

\* handleConfirmImport, the button of the import modal
HandleConfirmImport ==
    /\ showImportModal
    /\ Ran([name |-> "confirmImport"])
    /\ IF NoData(importPreview)
       THEN UNCHANGED <<calendar, showImportModal>>
       ELSE /\ calendar' = AfterConfirmImport(calendar, importPreview.data, sidebar)
            /\ showImportModal' = FALSE
    /\ UNCHANGED <<importPreview, fileFormat, fileImporter, backup, idsDrawn>>
    /\ AppFrame

NextApp ==
    \/ HandleAddActivity
    \/ HandleUpdateActivity
    \/ HandleRemoveActivity
    \/ HandlePostponeActivity
    \/ HandleSuspendActivity
    \/ HandleReactivateActivity
    \/ HandleRemoveCategory
    \/ ExpireNotification
    \/ HandleExportJSON
    \/ HandleFileSelect
    \/ HandleConfirmImport

SpecApp == InitApp /\ [][NextApp]_vars


(***************************************************************************)
(* Claims about the application state                                      *)
(***************************************************************************)
\* The operations on activities, and the confirmed import
ActivityOps ==
    {"add", "update", "remove", "postpone", "suspend", "reactivate",
     "confirmImport"}

UniqueIds(list) ==
    \A i, j \in 1..Len(list) : i # j => list[i].id # list[j].id

\* The identifiers of a list, in its order
IdsOf(list) == [j \in 1..Len(list) |-> list[j].id]

\* An operation other than remove leaves every activity that existed at its
\* place with its identifier; remove leaves no identifier that was not there
IdsKept ==
    IF lastOp'.name = "remove"
    THEN {calendar'.activities[j].id : j \in 1..Len(calendar'.activities)}
            \subseteq {calendar.activities[j].id : j \in 1..Len(calendar.activities)}
    ELSE /\ Len(calendar'.activities) >= Len(calendar.activities)
         /\ SubSeq(IdsOf(calendar'.activities), 1, Len(calendar.activities))
               = IdsOf(calendar.activities)

\* C21: in every state reached by add, update, remove, postpone, suspend,
\* reactivate and confirmed imports (the import of a document exported from
\* the same state among them) no two activities share an id, and no
\* operation changes the id of an activity that exists.
C21_UniqueStableIds ==
    /\ [](UniqueIds(calendar.activities))
    /\ [][IdsKept]_vars

\* The part of C21 about the identifiers of existing activities alone
C21_IdsStable == [][IdsKept]_vars

\* The step is handlePostponeActivity for an activity of the state
PostponeStep == lastOp'.name = "postpone"

\* What postponing leaves of the state before it: the original marked with
\* a forward reference to an appended activity of a fresh id, the new dates
\* and status active, every other activity as it was
PostponedForward ==
    LET old == calendar.activities
        new == calendar'.activities
        idx == FindIndexById(old, lastOp'.id)
        N   == new[Len(new)]
    IN  /\ Len(new) = Len(old) + 1
        /\ Read(new[idx], "status") = Postponed
        /\ Read(new[idx], "rescheduledToId") = N.id
        /\ new[idx].id = old[idx].id
        /\ \A j \in 1..Len(old) : N.id # old[j].id
        /\ N.startDate = lastOp'.newStart
        /\ N.endDate = lastOp'.newEnd
        /\ Read(N, "status") = Active
        /\ \A j \in 1..Len(old) : j # idx => new[j] = old[j]

\* The appended activity names the one it came from
BackReference ==
    LET new == calendar'.activities IN
    Read(new[Len(new)], "originalActivityId") = lastOp'.id

\* C22: postponing an activity A with new dates is one transition that marks
\* A postponed with rescheduledToId naming a newly appended activity N; N
\* has a fresh id, the new start and end dates, status active and a
\* back-reference to A; all other activities are unchanged.
C22_PostponeLinksBothWays ==
    [][PostponeStep => PostponedForward /\ BackReference]_vars

\* C22 without the back-reference
C22_PostponeForwardOnly == [][PostponeStep => PostponedForward]_vars

\* The step is handleConfirmImport
ConfirmStep == lastOp'.name = "confirmImport"

\* data.activities || []
ActivitiesOf(preview) ==
    IF "activities" \in DOMAIN preview.data THEN preview.data.activities
    ELSE <<>>

\* C23: confirming an import is one transition in which all imported
\* activities are appended and no existing activity is removed or modified;
\* a preview without data leaves the state unchanged; a preview with data
\* is merged whatever its errors list holds.
C23_ConfirmAppendsWhole ==
    [][ConfirmStep =>
          IF NoData(importPreview) THEN calendar' = calendar
          ELSE calendar'.activities =
                  calendar.activities \o ActivitiesOf(importPreview)]_vars

\* A CSV preview with an activity and an error has been merged into a state
\* that had an activity
C23_Witness ==
    /\ lastOp.name = "confirmImport"
    /\ ~NoData(importPreview)
    /\ "errors" \in DOMAIN importPreview
    /\ importPreview.errors # <<>>
    /\ ActivitiesOf(importPreview) # <<>>
    /\ before.activities # <<>>
    /\ calendar.activities =
          before.activities \o ActivitiesOf(importPreview)

\* A confirmation of a preview without data has left the state as it was
C23_DiscardReached ==
    /\ lastOp.name = "confirmImport"
    /\ NoData(importPreview)
    /\ calendar = before

\* The step is handleRemoveCategory
RemoveCategoryStep == lastOp'.name = "removeCategory"

\* Some entry of the list names the category
RefersTo(list, id) ==
    \E j \in 1..Len(list) : Read(list[j], "categoryId") = id

\* C24: deleting a category removes only that category; activities and
\* dayStyles stay as they were, the entries whose categoryId names the
\* deleted category among them.
C24_RemoveCategoryOnly ==
    [][RemoveCategoryStep =>
          /\ calendar'.categories =
                SelectSeq(calendar.categories, LAMBDA c : c.id # lastOp'.id)
          /\ calendar'.activities = calendar.activities
          /\ calendar'.dayStyles = calendar.dayStyles
          /\ calendar'.config = calendar.config]_vars

\* A category has been deleted that an activity and a day style still name
C24_Witness ==
    /\ lastOp.name = "removeCategory"
    /\ Len(calendar.categories) = Len(before.categories) - 1
    /\ \A j \in 1..Len(calendar.categories) : calendar.categories[j].id # lastOp.id
    /\ RefersTo(calendar.activities, lastOp.id)
    /\ RefersTo(calendar.dayStyles, lastOp.id)

\* The places of a text that hold something other than white space
InkAt(s) == {i \in 1..Len(s) : ~IsSpace(s[i])}

\* The first character of a text once the white space around it is taken
\* away; "" when nothing is left
FirstInk(s) ==
    IF InkAt(s) = {} THEN ""
    ELSE s[CHOOSE i \in InkAt(s) : \A j \in InkAt(s) : i <= j]

HasSeparator(s) == \E i \in 1..Len(s) : s[i] \in {",", ";"}

\* The format the stated order gives a content
FormatByOrder(content) ==
    IF FirstInk(content) \in {"{", "["} THEN "json"
    ELSE IF HasSeparator(content) THEN "csv"
    ELSE "unknown"

\* handleFileSelect has classified the content of the file it read
Classified ==
    /\ lastOp.name = "fileSelect"
    /\ ~(sidebar = "legacy" /\ lastOp.content = <<>>)

\* C26: detectFormat answers for every content and decides on the trimmed
\* content in this order: a leading { or [ gives json, also when the content
\* holds , or ; - otherwise a , or ; gives csv - otherwise unknown; content
\* classified unknown goes to no importer and gives a result whose success
\* is false.
C26_DetectionOrder ==
    Classified =>
        /\ fileFormat \in {"json", "csv", "unknown"}
        /\ fileFormat = FormatByOrder(lastOp.content)
        /\ fileFormat = "json" <=> fileImporter = "fromJSON"
        /\ fileFormat = "csv" <=> fileImporter = "fromCSV"
        /\ fileFormat = "unknown" =>
              /\ fileImporter = "none"
              /\ importPreview.success = FALSE
              /\ NoData(importPreview)

\* A content that opens with [ and holds , and ; has gone to fromJSON
C26_Witness ==
    /\ Classified
    /\ FirstInk(lastOp.content) = "["
    /\ HasSeparator(lastOp.content)
    /\ fileFormat = "json"
    /\ fileImporter = "fromJSON"

\* A content without bracket at its start and without separator has been
\* answered with the unsupported-format result
C26_UnknownReached ==
    /\ Classified
    /\ lastOp.content # <<>>
    /\ fileFormat = "unknown"
    /\ importPreview = Unsupported

\* A content with a separator before a bracket has gone to fromCSV
C26_CsvReached ==
    /\ Classified
    /\ Includes(lastOp.content, <<"{">>)
    /\ fileFormat = "csv"

\* The activity has a rescheduledToId
Linked(a) == Read(a, "rescheduledToId") # Undefined

\* No file has been read, so that the state is the work of add, update,
\* remove, postpone, suspend and reactivate alone
NothingImported == importPreview = NoDoc

\* Every linked activity is postponed
LinkedArePostponed ==
    \A j \in 1..Len(calendar.activities) :
        Linked(calendar.activities[j]) =>
            Read(calendar.activities[j], "status") = Postponed

\* Every link names an activity of the state
LinksResolve ==
    \A j \in 1..Len(calendar.activities) :
        Linked(calendar.activities[j]) =>
            \E k \in 1..Len(calendar.activities) :
                calendar.activities[k].id = calendar.activities[j].rescheduledToId

\* C27: in every state reached by add, update, remove, postpone, suspend and
\* reactivate, every activity whose rescheduledToId is set has status
\* postponed and its rescheduledToId is the id of an activity of the state.
C27_LinksSound ==
    NothingImported => LinkedArePostponed /\ LinksResolve

\* The halves of C27, each of which fails by itself
C27_LinkedArePostponed == NothingImported => LinkedArePostponed
C27_LinksResolve == NothingImported => LinksResolve

(***************************************************************************)
(* The style edited and the style rendered (checked under SpecStyles)      *)
(***************************************************************************)
\* The style has no endDate, or both its dates are dates written with two
\* digits for month and day and the end is not before the start
WellFormedStyle(s) ==
    HasEndDate(s) =>
        /\ IsDateText(s.startDate) /\ Len(s.startDate) = 10
        /\ IsDateText(s.endDate) /\ Len(s.endDate) = 10
        /\ DayOfText(s.startDate) <= DayOfText(s.endDate)

AllWellFormed == \A i \in 1..Len(dayStyles) : WellFormedStyle(dayStyles[i])

\* The day of the cell is after the start of a well-formed style with an
\* endDate that the canvas renders for it
InsideRange ==
    /\ customStyle \in StylePool
    /\ WellFormedStyle(customStyle)
    /\ HasEndDate(customStyle)
    /\ customStyle.startDate # IsoText(cellDay)

\* C29: for every date and every dayStyles list the style handleSelectDay
\* chooses for editing when the day is clicked is the style getDayStyle
\* renders for that day; a click on a day strictly inside a ranged style
\* selects that style, not none.
C29_SelectedIsRendered ==
    styPc = "selected" => existingStyle = customStyle

\* C29 for the days strictly inside a well-formed ranged style
C29_InsideRangeSelected ==
    styPc = "selected" /\ InsideRange => existingStyle = customStyle

\* The handleSelectDay that tests the interval agrees with getDayStyle on
\* lists of well-formed styles
C29_IntervalHandlerAgrees ==
    styPc = "rendered" /\ AllWellFormed =>
        HandleSelectDay(IsoText(cellDay), dayStyles, tz, engine, dateFns)
            = customStyle
=============================================================================
